---------------------------- MODULE Spec2Model ----------------------------
(***************************************************************************)
(* A model of the retrieval and ranking engine of msc-super-friend:        *)
(*   backend/main.py          the grounding gate and the /ask handler      *)
(*   backend/rag/retrieve.py  evidence selection and the LLM reranker      *)
(*   backend/rag/vectors.py   the FAISS store: save, load, search          *)
(*   backend/rag/ingest.py    the ingestion run that rebuilds the store    *)
(*   backend/rag/chunking.py  the overlapping chunker                      *)
(*   backend/rag/loaders.py   the source loader                            *)
(*   scripts/answer_questions.py  the batch answer rows                    *)
(*   api/main.py              the api /ask handler                         *)
(*                                                                         *)
(* Text is a sequence of one-character strings.  A score is an integer in  *)
(* tenths (0.2 is 2).  An Optional value is a sequence of length 0 (None)  *)
(* or 1 (the value).                                                       *)
(***************************************************************************)
EXTENDS Integers, Sequences, FiniteSets, TLC

VARIABLES
    \* _is_grounded applied to drawn inputs
    gPc, gEvidence, gAnswer, gMin, gResult,
    \* the backend /ask handler
    askPc, askIn, askGen, askResp,
    \* _build_evidence applied to drawn inputs
    selPc, selCands, selTopK, selAllowed, selOut,
    \* _llm_rerank applied to drawn inputs
    rrPc, rrCands, rrService, rrOut,
    \* the persisted index, the ingestion runs and the queries
    indexFile, metaFile, INDEX_STATE, runs, queries,
    \* _normalize_scores applied to drawn raw values
    normalize,
    \* _build_candidates called twice on one drawn input
    builder,
    \* _chunk_with_overlap, one loop iteration at a time
    chunker,
    \* load_web_sources and the chunk-id loop of ingest() on drawn sources
    ingester,
    \* _build_row_from_evidence applied to drawn evidence
    batch,
    \* the citation selection of /ask applied to drawn evidence
    citer,
    \* the api /ask handler
    api,
    \* one call of _build_candidates against the persisted index
    retrieval,
    \* _route_domain and _infer_domain applied to one drawn text
    router,
    \* _normalize_query applied to one drawn policy reference
    refnorm,
    \* chunk_policy_text applied to one drawn text
    policy,
    \* the vectors a build stores and the scores a search of them returns
    indexer

gateVars == <<gPc, gEvidence, gAnswer, gMin, gResult>>
askVars == <<askPc, askIn, askGen, askResp>>
selVars == <<selPc, selCands, selTopK, selAllowed, selOut>>
rrVars == <<rrPc, rrCands, rrService, rrOut>>
storeVars == <<indexFile, metaFile, INDEX_STATE, runs, queries>>
vars == <<gateVars, askVars, selVars, rrVars, storeVars,
          normalize, builder, chunker, ingester, batch, citer, api,
          retrieval, router, refnorm, policy, indexer>>

\* what an action of one component leaves alone: the other components
servingVars == <<gateVars, askVars, selVars, rrVars, storeVars>>
notGate == <<askVars, selVars, rrVars, storeVars,
             normalize, builder, chunker, ingester, batch, citer, api,
             retrieval, router, refnorm, policy, indexer>>
notAsk == <<gateVars, selVars, rrVars, storeVars,
            normalize, builder, chunker, ingester, batch, citer, api,
            retrieval, router, refnorm, policy, indexer>>
notSel == <<gateVars, askVars, rrVars, storeVars,
            normalize, builder, chunker, ingester, batch, citer, api,
            retrieval, router, refnorm, policy, indexer>>
notRerank == <<gateVars, askVars, selVars, storeVars,
               normalize, builder, chunker, ingester, batch, citer, api,
               retrieval, router, refnorm, policy, indexer>>
notStore == <<gateVars, askVars, selVars, rrVars,
              normalize, builder, chunker, ingester, batch, citer, api,
              retrieval, router, refnorm, policy, indexer>>
notNormalize == <<servingVars, builder, chunker, ingester, batch, citer, api,
                  retrieval, router, refnorm, policy, indexer>>
notBuilder == <<servingVars, normalize, chunker, ingester, batch, citer, api,
                retrieval, router, refnorm, policy, indexer>>
notChunker == <<servingVars, normalize, builder, ingester, batch, citer, api,
                retrieval, router, refnorm, policy, indexer>>
notIngester == <<servingVars, normalize, builder, chunker, batch, citer, api,
                 retrieval, router, refnorm, policy, indexer>>
notBatch == <<servingVars, normalize, builder, chunker, ingester, citer, api,
              retrieval, router, refnorm, policy, indexer>>
notCiter == <<servingVars, normalize, builder, chunker, ingester, batch, api,
              retrieval, router, refnorm, policy, indexer>>
notApi == <<servingVars, normalize, builder, chunker, ingester, batch, citer,
            retrieval, router, refnorm, policy, indexer>>
notRetrieval == <<servingVars, normalize, builder, chunker, ingester, batch,
                  citer, api, router, refnorm, policy, indexer>>
notRouter == <<servingVars, normalize, builder, chunker, ingester, batch,
               citer, api, retrieval, refnorm, policy, indexer>>
notRefnorm == <<servingVars, normalize, builder, chunker, ingester, batch,
                citer, api, retrieval, router, policy, indexer>>
notPolicy == <<servingVars, normalize, builder, chunker, ingester, batch,
               citer, api, retrieval, router, refnorm, indexer>>
notIndexer == <<servingVars, normalize, builder, chunker, ingester, batch,
                citer, api, retrieval, router, refnorm, policy>>

---------------------------------------------------------------------------
(* Bounds of the model. *)

\* longest generated text drawn for the grounding gate
MaxLen == 4
\* highest evidence score drawn, in tenths
MaxScore == 1
\* longest evidence list drawn for the grounding gate
MaxEvidence == 2
\* longest ranked candidate list drawn for evidence selection and /ask
MaxCands == 2
\* largest top_k drawn
MaxTopK == 2
\* longest candidate list handed to the reranker
MaxRerank == 13
\* most comma-separated pieces in a reply of the judgment service
MaxReply == 2
\* ingestion runs that may overlap, each building its own generation
MaxRuns == 2
\* queries that may be in flight at once
MaxQueries == 1
\* most passages of one generation
MaxRows == 3
\* most raw values handed to _normalize_scores
MaxValues == 3
\* most passages of a snapshot handed to the candidate builder
MaxPassages == 2
\* longest text, largest chunk size and largest overlap handed to the
\* chunker, and the turns of its loop that are followed
MaxText == 6
MaxChunkSize == 3
MaxOverlap == 3
MaxChunks == 7
\* most groups of sources.yaml and most items of a group
MaxGroups == 2
MaxItems == 1
\* longest evidence list handed to _build_row_from_evidence
MaxBatch == 2
\* longest evidence list whose citations are selected
MaxCited == 4

---------------------------------------------------------------------------
(* Values shared by the components. *)

None == <<>>
Some(v) == <<v>>

Scores == -1..MaxScore

Digits == {"0", "1", "2", "3", "4", "5", "6", "7", "8", "9"}
Whitespace == {" "}

\* the characters generated text is drawn from
Alphabet == {"[", "E", "1", "]"}

SeqsUpTo(S, n) == UNION {[1..k -> S] : k \in 0..n}

\* str.strip()
RECURSIVE LStrip(_)
LStrip(s) ==
    IF s # <<>> /\ Head(s) \in Whitespace THEN LStrip(Tail(s)) ELSE s

RECURSIVE RStrip(_)
RStrip(s) ==
    IF s # <<>> /\ s[Len(s)] \in Whitespace
    THEN RStrip(SubSeq(s, 1, Len(s) - 1))
    ELSE s

Strip(s) == RStrip(LStrip(s))

\* max(values, default=d)
RECURSIVE SeqMax(_, _)
SeqMax(values, d) ==
    IF values = <<>> THEN d
    ELSE LET rest == SeqMax(Tail(values), Head(values))
         IN  IF rest > Head(values) THEN rest ELSE Head(values)

\* the fixed statement of backend/main.py and backend/rag/llm.py
INSUFFICIENT ==
    <<"I", "n", "s", "u", "f", "f", "i", "c", "i", "e", "n", "t", " ",
      "e", "v", "i", "d", "e", "n", "c", "e", " ", "i", "n", " ",
      "t", "h", "e", " ", "i", "n", "d", "e", "x", "e", "d", " ",
      "s", "o", "u", "r", "c", "e", "s", ".">>

---------------------------------------------------------------------------
(* backend/main.py: the grounding gate. *)

\* re.search(r"\[E\d+\]", answer or "")
AnswerHasCitationMarkers(answer) ==
    \E i \in 1..Len(answer) :
        \E j \in (i + 3)..Len(answer) :
            /\ answer[i] = "["
            /\ answer[i + 1] = "E"
            /\ \A k \in (i + 2)..(j - 1) : answer[k] \in Digits
            /\ answer[j] = "]"

\* a gate that forgets the marker test
IsGroundedNoMarker(evidence, answer, min_top_score) ==
    /\ evidence # <<>>
    /\ SeqMax([i \in 1..Len(evidence) |-> evidence[i].score], 0) >= min_top_score

IsGrounded(evidence, answer, min_top_score) ==
    IF evidence = <<>> THEN FALSE
    ELSE IF SeqMax([i \in 1..Len(evidence) |-> evidence[i].score], 0) < min_top_score
         THEN FALSE
         ELSE AnswerHasCitationMarkers(answer)

GateIdle ==
    /\ gPc = "idle"
    /\ gEvidence = <<>>
    /\ gAnswer = <<>>
    /\ gMin = 0
    /\ gResult = FALSE

GateInputs ==
    /\ gPc = "call"
    /\ gEvidence \in SeqsUpTo([score : Scores], MaxEvidence)
    /\ gAnswer \in SeqsUpTo(Alphabet, MaxLen)
    /\ gMin \in 0..(MaxScore + 1)
    /\ gResult = FALSE

GateCall ==
    /\ gPc = "call"
    /\ gResult' = IsGrounded(gEvidence, gAnswer, gMin)
    /\ gPc' = "done"
    /\ UNCHANGED <<gEvidence, gAnswer, gMin, notGate>>

---------------------------------------------------------------------------
(* backend/rag/retrieve.py: evidence selection. *)

Sources == {"afi41", "toolkit", "web"}

\* The passage records candidates wrap: chunk_id, source_id and the locator
\* fields (page, section, subsection) of ChunkRecord.
ChunkPool ==
    { [chunk_id |-> 1, source_id |-> "afi41", page |-> Some(1),
       section |-> None, subsection |-> None],
      [chunk_id |-> 2, source_id |-> "toolkit", page |-> None,
       section |-> Some(<<"2", ".", "1">>), subsection |-> None],
      [chunk_id |-> 3, source_id |-> "afi41", page |-> None,
       section |-> Some(<<" ">>), subsection |-> None],
      [chunk_id |-> 4, source_id |-> "web", page |-> None,
       section |-> None, subsection |-> Some(<<"a">>)] }

\* _Candidate: a passage record and its combined score
Candidates == [rec : ChunkPool, combined_score : Scores]

\* ranked candidate lists: by_chunk holds one candidate per chunk_id
CandLists ==
    { cs \in SeqsUpTo(Candidates, MaxCands) :
        \A i, j \in 1..Len(cs) : i # j => cs[i].rec.chunk_id # cs[j].rec.chunk_id }

\* Optional[list[str]]: None, or a list of source identifiers (read only
\* through "in", so a set stands for the list)
AllowedLists == {None} \cup {Some(S) : S \in SUBSET Sources}

\* str(i) for 0 <= i <= 99
Decimal(i) ==
    LET d(k) == CHOOSE c \in Digits :
                    c = <<"0", "1", "2", "3", "4", "5", "6", "7", "8", "9">>[k + 1]
    IN  IF i < 10 THEN <<d(i)>> ELSE <<d(i \div 10), d(i % 10)>>

\* a filter that skips nothing
SkipsNever(cand, allowed_sources) == FALSE

\* retrieve.py line 288: "allowed_sources and source_id not in allowed_sources"
Skips(cand, allowed_sources) ==
    /\ allowed_sources # None
    /\ allowed_sources[1] # {}
    /\ cand.rec.source_id \notin allowed_sources[1]

\* the selection loop of _build_evidence
RECURSIVE SelectLoop(_, _, _, _)
SelectLoop(cands, top_k, allowed_sources, selected) ==
    IF cands = <<>> THEN selected
    ELSE IF Skips(Head(cands), allowed_sources)
         THEN SelectLoop(Tail(cands), top_k, allowed_sources, selected)
         ELSE LET grown == Append(selected, Head(cands))
              IN  IF Len(grown) >= top_k THEN grown
                  ELSE SelectLoop(Tail(cands), top_k, allowed_sources, grown)

\* Evidence(evid_id=f"E{i}", score=combined_score, ...) for i = 1, 2, ...
MakeEvidence(i, cand) ==
    [evid_id |-> <<"E">> \o Decimal(i),
     score |-> cand.combined_score,
     chunk_id |-> cand.rec.chunk_id,
     source_id |-> cand.rec.source_id,
     page |-> cand.rec.page,
     section |-> cand.rec.section,
     subsection |-> cand.rec.subsection]

\* _build_evidence: the evidence list (the second component, selected, is
\* the candidates the list was made from, in the same order)
BuildEvidence(cands, top_k, allowed_sources) ==
    LET selected == SelectLoop(cands, top_k, allowed_sources, <<>>)
    IN  [i \in 1..Len(selected) |-> MakeEvidence(i, selected[i])]

SelIdle ==
    /\ selPc = "idle"
    /\ selCands = <<>>
    /\ selTopK = 0
    /\ selAllowed = None
    /\ selOut = <<>>

SelInputs ==
    /\ selPc = "call"
    /\ selCands \in CandLists
    /\ selTopK \in 0..MaxTopK
    /\ selAllowed \in AllowedLists
    /\ selOut = <<>>

SelCall ==
    /\ selPc = "call"
    /\ selOut' = BuildEvidence(selCands, selTopK, selAllowed)
    /\ selPc' = "done"
    /\ UNCHANGED <<selCands, selTopK, selAllowed, notSel>>

---------------------------------------------------------------------------
(* backend/rag/llm.py and backend/main.py: the /ask handler. *)

\* RAG_MIN_TOP_SCORE defaults to "0.2"
MinTopScoreDefault == 2

\* what the completion service may send back
ServiceTexts ==
    { <<>>,
      <<" ">>,
      <<"a">>,
      <<"[", "E", "]">>,
      <<"[", "E", "1", "]">>,
      <<" ", "a", "[", "E", "2", "]", " ">>,
      INSUFFICIENT }

\* generate_grounded_answer, given the content of the service's reply
GenerateGroundedAnswer(evidence, content) ==
    IF evidence = <<>> THEN INSUFFICIENT
    ELSE IF Strip(content) = <<>> THEN INSUFFICIENT
         ELSE Strip(content)

\* "s and s.strip()" on an Optional[str]
NonBlank(opt) == opt # None /\ opt[1] # <<>> /\ Strip(opt[1]) # <<>>

CitationHasLocator(citation) ==
    \/ citation.page # None
    \/ NonBlank(citation.section)
    \/ NonBlank(citation.subsection)

\* list.sort(key=score, reverse=True): stable, equal scores keep their order
RECURSIVE InsertByScore(_, _)
InsertByScore(sorted, c) ==
    IF sorted = <<>> THEN <<c>>
    ELSE IF Head(sorted).score >= c.score
         THEN <<Head(sorted)>> \o InsertByScore(Tail(sorted), c)
         ELSE <<c>> \o sorted

RECURSIVE SortByScoreDesc(_)
SortByScoreDesc(cs) ==
    IF cs = <<>> THEN <<>>
    ELSE InsertByScore(SortByScoreDesc(SubSeq(cs, 1, Len(cs) - 1)), cs[Len(cs)])

\* a selection that keeps the first three locatable citations as they come
PreciseCitationsUnsorted(evidence) ==
    LET precise == SelectSeq(evidence, CitationHasLocator)
    IN  SubSeq(precise, 1, IF Len(precise) < 3 THEN Len(precise) ELSE 3)

\* main.py lines 337-340: the locatable citations, best first, at most 3
PreciseCitations(evidence) ==
    LET precise == SelectSeq(evidence, CitationHasLocator)
        sorted == SortByScoreDesc(precise)
    IN  SubSeq(sorted, 1, IF Len(sorted) < 3 THEN Len(sorted) ELSE 3)

\* a handler that returns what was generated whatever the gate says
GatedAnswerKeep(grounded, answer_text) == answer_text

\* main.py lines 343-344
GatedAnswer(grounded, answer_text) ==
    IF ~grounded THEN INSUFFICIENT ELSE answer_text

NoResponse == [status |-> 0, answer |-> <<>>, citations |-> <<>>, grounded |-> FALSE]

HttpError(code) ==
    [status |-> code, answer |-> <<>>, citations |-> <<>>, grounded |-> FALSE]

AskFaults == {"none", "no_index", "no_api_key", "retrieve_raises", "llm_raises"}

\* the scores of the candidates a request's retrieval ranks
AskScores == {0, MinTopScoreDefault}

AskCandLists ==
    { cs \in SeqsUpTo([rec : ChunkPool, combined_score : AskScores], MaxCands) :
        \A i, j \in 1..Len(cs) : i # j => cs[i].rec.chunk_id # cs[j].rec.chunk_id }

AskInputs ==
    [fault : AskFaults,
     cands : AskCandLists,
     top_k : 0..MaxTopK,
     allowed_sources : {None, Some({"afi41"})},
     content : ServiceTexts,
     min_top_score : {0, MinTopScoreDefault}]

NoInput ==
    [fault |-> "none", cands |-> <<>>, top_k |-> 0, allowed_sources |-> None,
     content |-> <<>>, min_top_score |-> 0]

AskIdle ==
    /\ askPc = "idle"
    /\ askIn = NoInput
    /\ askGen = None
    /\ askResp = NoResponse

\* a request arrives, and with it what its collaborators will do
AskReceive ==
    /\ askPc = "idle"
    /\ askIn' \in AskInputs
    /\ askPc' = "handle"
    /\ askGen' = None
    /\ askResp' = NoResponse
    /\ UNCHANGED notAsk

\* ask(req), main.py lines 270-383
AskHandle ==
    /\ askPc = "handle"
    /\ askPc' = "replied"
    /\ UNCHANGED <<askIn, notAsk>>
    /\ IF askIn.fault = "no_index"
       THEN askResp' = HttpError(400) /\ askGen' = None
       ELSE IF askIn.fault \in {"no_api_key", "retrieve_raises"}
       THEN askResp' = HttpError(500) /\ askGen' = None
       ELSE LET evidence == BuildEvidence(askIn.cands, askIn.top_k,
                                          askIn.allowed_sources)
            IN  IF evidence # <<>> /\ askIn.fault = "llm_raises"
                THEN askResp' = HttpError(500) /\ askGen' = None
                ELSE LET answer_text ==
                             IF evidence # <<>>
                             THEN GenerateGroundedAnswer(evidence, askIn.content)
                             ELSE INSUFFICIENT
                         citations == PreciseCitations(evidence)
                         grounded == IsGrounded(citations, answer_text,
                                                askIn.min_top_score)
                     IN  /\ askGen' = IF evidence # <<>>
                                      THEN Some(answer_text) ELSE None
                         /\ askResp' = [status |-> 200,
                                        answer |-> GatedAnswer(grounded, answer_text),
                                        citations |-> citations,
                                        grounded |-> grounded]

\* the response has been sent
AskReply ==
    /\ askPc = "replied"
    /\ askPc' = "idle"
    /\ askIn' = NoInput
    /\ askGen' = None
    /\ askResp' = NoResponse
    /\ UNCHANGED notAsk

---------------------------------------------------------------------------
(* backend/rag/retrieve.py: the LLM reranker. *)

\* _llm_rerank(..., max_candidates: int = 12); its one caller passes none
MaxCandidatesDefault == 12

\* stands for the character U+00B2, a digit to str.isdigit() and not to int()
SuperscriptTwo == "^2"

\* the pieces raw.split(",") may yield
Pieces ==
    { <<>>,
      <<"1">>,
      <<" ", "2">>,
      <<"3", " ">>,
      <<"1", "3">>,
      <<"0">>,
      <<"a">>,
      <<SuperscriptTwo>> }

\* str.isdigit()
IsDigit(s) == s # <<>> /\ \A i \in 1..Len(s) : s[i] \in Digits \cup {SuperscriptTwo}

\* whether int(s) raises ValueError, for s with s.isdigit()
IntRaises(s) == \E i \in 1..Len(s) : s[i] \notin Digits

DigitValue(c) ==
    CHOOSE v \in 0..9 : <<"0", "1", "2", "3", "4", "5", "6", "7", "8", "9">>[v + 1] = c

\* int(s) for a decimal s
RECURSIVE ToInt(_)
ToInt(s) ==
    IF s = <<>> THEN 0
    ELSE 10 * ToInt(SubSeq(s, 1, Len(s) - 1)) + DigitValue(s[Len(s)])

\* [int(x.strip()) - 1 for x in pieces if x.strip().isdigit()]
RECURSIVE ParseOrder(_)
ParseOrder(pieces) ==
    IF pieces = <<>> THEN <<>>
    ELSE IF IsDigit(Strip(Head(pieces)))
         THEN <<ToInt(Strip(Head(pieces))) - 1>> \o ParseOrder(Tail(pieces))
         ELSE ParseOrder(Tail(pieces))

ParseRaises(pieces) ==
    \E i \in 1..Len(pieces) :
        IsDigit(Strip(pieces[i])) /\ IntRaises(Strip(pieces[i]))

\* [trimmed[i] for i in order if 0 <= i < len(trimmed)]
RECURSIVE Ranked(_, _)
Ranked(order, trimmed) ==
    IF order = <<>> THEN <<>>
    ELSE IF 0 <= Head(order) /\ Head(order) < Len(trimmed)
         THEN <<trimmed[Head(order) + 1]>> \o Ranked(Tail(order), trimmed)
         ELSE Ranked(Tail(order), trimmed)

Range(s) == {s[i] : i \in 1..Len(s)}

Returned(v) == [kind |-> "returned", value |-> v]
Raised == [kind |-> "raised", value |-> <<>>]
NoOutcome == [kind |-> "none", value |-> <<>>]

\* _llm_rerank: candidates are distinct objects, told apart by id()
LlmRerank(candidates, max_candidates, service) ==
    LET trimmed == SubSeq(candidates, 1,
                          IF Len(candidates) < max_candidates
                          THEN Len(candidates) ELSE max_candidates)
        rest == SubSeq(candidates, max_candidates + 1, Len(candidates))
    IN  IF trimmed = <<>> THEN Returned(candidates)
        ELSE IF service.client = "raises" THEN Raised
        ELSE IF service.call # "ok" THEN Returned(candidates)
        ELSE IF ParseRaises(service.pieces) THEN Returned(candidates)
        ELSE LET ranked == Ranked(ParseOrder(service.pieces), trimmed)
                 seen == Range(ranked)
                 missed == SelectSeq(trimmed, LAMBDA c : c \notin seen)
             IN  Returned(ranked \o missed \o rest)

\* what the judgment service does: building the client raises or not; the
\* call raises, answers with no choice, or answers with a text whose pieces
\* between commas are given
Services ==
    [client : {"ok", "raises"},
     call : {"ok", "raises", "no_choices"},
     pieces : UNION {[1..k -> Pieces] : k \in 1..MaxReply}]

NoService == [client |-> "ok", call |-> "ok", pieces |-> <<>>]

RerankIdle ==
    /\ rrPc = "idle"
    /\ rrCands = <<>>
    /\ rrService = NoService
    /\ rrOut = NoOutcome

RerankInputs ==
    /\ rrPc = "call"
    /\ rrCands \in {[i \in 1..n |-> i] : n \in 0..MaxRerank}
    /\ rrService \in Services
    /\ rrOut = NoOutcome

RerankCall ==
    /\ rrPc = "call"
    /\ rrOut' = LlmRerank(rrCands, MaxCandidatesDefault, rrService)
    /\ rrPc' = "done"
    /\ UNCHANGED <<rrCands, rrService, notRerank>>

---------------------------------------------------------------------------
(* backend/rag/vectors.py and backend/rag/ingest.py: the persisted index.  *)
(* A file is written in one step; a reader never sees part of one file.    *)

Runs == 1..MaxRuns
Queries == 1..MaxQueries

\* Run g builds generation g: Size(g) passages (one for an odd g, three
\* for an even g), the passage at position i (from 0) being <<g, i>>,
\* embedded as Vector(g, i).  An even generation holds the vectors
\* [1,0], [0,1], [0.7,0.7] in this order.
Size(g) == MaxRows - (MaxRows - 1) * (g % 2)

VecPool == << <<10, 0>>, <<0, 10>>, <<7, 7>> >>

Vector(g, i) == VecPool[((g + i + 1) % Len(VecPool)) + 1]

QueryVecs == {<<10, 0>>, <<0, 10>>}

Absent == [exists |-> FALSE, gen |-> 0]
Written(g) == [exists |-> TRUE, gen |-> g]

\* an existence test that never reports a missing artifact
MissingNever(file) == FALSE

\* "not self.index_path.exists()", "not self.meta_path.exists()"
Missing(file) == ~file.exists

InnerProduct(q, v) == q[1] * v[1] + q[2] * v[2]

\* IndexFlatIP.search: the positions of the k highest inner products, best
\* first, as <<score, position>>; fewer when the index holds fewer vectors
\* (the padding of position -1 is what search() skips)
RECURSIVE TopHits(_, _, _, _)
TopHits(g, q, k, left) ==
    IF k = 0 \/ left = {} THEN <<>>
    ELSE LET best == CHOOSE i \in left :
                       \A j \in left :
                           \/ InnerProduct(q, Vector(g, i)) > InnerProduct(q, Vector(g, j))
                           \/ /\ InnerProduct(q, Vector(g, i)) = InnerProduct(q, Vector(g, j))
                              /\ i <= j
         IN  <<<<InnerProduct(q, Vector(g, best)), best>>>>
                 \o TopHits(g, q, k - 1, left \ {best})

FaissSearch(g, q, k) == TopHits(g, q, k, 0..(Size(g) - 1))

RaisedExc(exc) == [kind |-> "raised", exc |-> exc, value |-> <<>>]
ReturnedHits(v) == [kind |-> "returned", exc |-> "", value |-> v]
Pending == [kind |-> "none", exc |-> "", value |-> <<>>]

\* a search that answers a failed load with no results
OnLoadErrorEmpty(exc) == ReturnedHits(<<>>)

\* search() line 93: an exception of load() leaves search() as it is
OnLoadError(exc) == RaisedExc(exc)

\* a search that hands back the first k stored passages, unranked
SearchLoadedFirst(gi, gm, q, k) ==
    LET n == IF k < Size(gi) THEN k ELSE Size(gi)
    IN  ReturnedHits([p \in 1..n |->
                         [score |-> InnerProduct(q, Vector(gi, p - 1)),
                          rec |-> <<gm, p - 1>>]])

\* search() lines 100-107 on a loaded index of generation gi and a loaded
\* metadata array of generation gm: meta[int(i)] for every hit
SearchLoaded(gi, gm, q, k) ==
    LET hits == FaissSearch(gi, q, k)
    IN  IF \E n \in 1..Len(hits) : hits[n][2] >= Size(gm)
        THEN RaisedExc("IndexError")
        ELSE ReturnedHits([n \in 1..Len(hits) |->
                              [score |-> hits[n][1], rec |-> <<gm, hits[n][2]>>]])

\* What embed_texts hands back: a ragged list of lists, of which np.array
\* makes no array, or an array of ndim axes whose first axis has rows
\* entries.
Ragged == [ndim |-> 0, rows |-> 0]

\* the arrays drawn for a build of a given number of records
Arrays(records) == [ndim : 1..3, rows : (records - 1)..(records + 1)]

\* openai_embeddings.py line 63, ingest.py line 162: np.array / np.asarray
\* raise ValueError on lists of unequal lengths
NpAsarrayRaises(vectors) == vectors = Ragged

\* ingest.py line 163
IngestRejects(vectors, records) ==
    vectors.ndim # 2 \/ vectors.rows # records

\* a save() that validates nothing
SaveRejectsNever(vectors, meta_len) == FALSE

\* save() lines 62-65
SaveRejects(vectors, meta_len) ==
    IF vectors.ndim # 2 THEN TRUE ELSE meta_len # vectors.rows

\* bad: the vectors of the run were no (N, D) array of one row for each of
\* its passage records
IdleRun == [pc |-> "idle", bad |-> FALSE]

IdleQuery ==
    [pc |-> "idle", k |-> 1, q |-> <<10, 0>>, cold |-> FALSE,
     index |-> 0, meta |-> 0, load |-> "none", out |-> Pending]

StoreIdle ==
    /\ indexFile = Absent
    /\ metaFile = Absent
    /\ INDEX_STATE = [indexed_as_of |-> 0, num_chunks |-> 0]
    /\ runs = [r \in Runs |-> IdleRun]
    /\ queries = [n \in Queries |-> IdleQuery]

\* The build up to the first write.  Either ingest() lines 99-172 (load,
\* chunk, embed, check the shape, call save()) followed by save() lines
\* 62-74, or a caller handing save() an array and Size(r) records itself.
\* Any failure here raises before the store is touched.
IngestBuild(r) ==
    /\ runs[r].pc = "idle"
    /\ \E entry \in {"ingest", "save"}, raises \in BOOLEAN,
          vectors \in Arrays(Size(r)) \cup {Ragged} :
           /\ entry = "save" => (~raises /\ vectors # Ragged)
           /\ LET fails ==
                      IF entry = "ingest"
                      THEN \/ raises
                           \/ NpAsarrayRaises(vectors)
                           \/ IngestRejects(vectors, Size(r))
                           \/ SaveRejects(vectors, Size(r))
                      ELSE SaveRejects(vectors, Size(r))
              IN  runs' = [runs EXCEPT ![r] =
                      [pc |-> IF fails THEN "failed" ELSE "write_index",
                       bad |-> \/ vectors = Ragged
                               \/ vectors.ndim # 2
                               \/ vectors.rows # Size(r)]]
    /\ UNCHANGED <<indexFile, metaFile, INDEX_STATE, queries, notStore>>

\* save() line 76: faiss.write_index(index, index_path)
SaveWriteIndex(r) ==
    /\ runs[r].pc = "write_index"
    /\ indexFile' = Written(r)
    /\ runs' = [runs EXCEPT ![r].pc = "write_meta"]
    /\ UNCHANGED <<metaFile, INDEX_STATE, queries, notStore>>

\* save() lines 78-79: meta_path.write_text(json.dumps(raw))
SaveWriteMeta(r) ==
    /\ runs[r].pc = "write_meta"
    /\ metaFile' = Written(r)
    /\ runs' = [runs EXCEPT ![r].pc = "publish"]
    /\ UNCHANGED <<indexFile, INDEX_STATE, queries, notStore>>

\* save() lines 69-76 raise before faiss.index is opened for writing (the
\* directory cannot be made, the file cannot be opened)
SaveWriteIndexFails(r) ==
    /\ runs[r].pc = "write_index"
    /\ runs' = [runs EXCEPT ![r].pc = "failed"]
    /\ UNCHANGED <<indexFile, metaFile, INDEX_STATE, queries, notStore>>

\* save() lines 78-79 raise before meta.json is opened for writing
\* (json.dumps raises, the file cannot be opened): line 76 has been done
SaveWriteMetaFails(r) ==
    /\ runs[r].pc = "write_meta"
    /\ runs' = [runs EXCEPT ![r].pc = "failed"]
    /\ UNCHANGED <<indexFile, metaFile, INDEX_STATE, queries, notStore>>

\* ingest_endpoint lines 258-262
IngestPublish(r) ==
    /\ runs[r].pc = "publish"
    /\ INDEX_STATE' = [indexed_as_of |-> r, num_chunks |-> Size(r)]
    /\ runs' = [runs EXCEPT ![r].pc = "done"]
    /\ UNCHANGED <<indexFile, metaFile, queries, notStore>>

\* a caller starts search(query_vec, top_k)
QueryStart(n) ==
    /\ queries[n].pc = "idle"
    /\ queries' = [queries EXCEPT ![n] = [IdleQuery EXCEPT !.pc = "check_index"]]
    /\ UNCHANGED <<indexFile, metaFile, INDEX_STATE, runs, notStore>>

\* load() line 82, left operand of "or"
LoadCheckIndex(n) ==
    /\ queries[n].pc = "check_index"
    /\ queries' = [queries EXCEPT ![n] =
           IF Missing(indexFile)
           THEN [@ EXCEPT !.pc = "done", !.cold = TRUE,
                          !.load = "FileNotFoundError",
                          !.out = OnLoadError("FileNotFoundError")]
           ELSE [@ EXCEPT !.pc = "check_meta", !.cold = ~indexFile.exists]]
    /\ UNCHANGED <<indexFile, metaFile, INDEX_STATE, runs, notStore>>

\* load() line 82, right operand of "or"
LoadCheckMeta(n) ==
    /\ queries[n].pc = "check_meta"
    /\ queries' = [queries EXCEPT ![n] =
           IF Missing(metaFile)
           THEN [@ EXCEPT !.pc = "done", !.cold = TRUE,
                          !.load = "FileNotFoundError",
                          !.out = OnLoadError("FileNotFoundError")]
           ELSE [@ EXCEPT !.pc = "read_index",
                          !.cold = @ \/ ~metaFile.exists]]
    /\ UNCHANGED <<indexFile, metaFile, INDEX_STATE, runs, notStore>>

\* load() line 87: faiss.read_index raises its own error on a missing file
LoadReadIndex(n) ==
    /\ queries[n].pc = "read_index"
    /\ queries' = [queries EXCEPT ![n] =
           IF indexFile.exists
           THEN [@ EXCEPT !.pc = "read_meta", !.index = indexFile.gen]
           ELSE [@ EXCEPT !.pc = "done", !.load = "RuntimeError",
                          !.out = OnLoadError("RuntimeError")]]
    /\ UNCHANGED <<indexFile, metaFile, INDEX_STATE, runs, notStore>>

\* load() lines 88-90: read_text raises FileNotFoundError on a missing file
LoadReadMeta(n) ==
    /\ queries[n].pc = "read_meta"
    /\ queries' = [queries EXCEPT ![n] =
           IF metaFile.exists
           THEN [@ EXCEPT !.pc = "search", !.meta = metaFile.gen, !.load = "ok"]
           ELSE [@ EXCEPT !.pc = "done", !.load = "FileNotFoundError",
                          !.out = OnLoadError("FileNotFoundError")]]
    /\ UNCHANGED <<indexFile, metaFile, INDEX_STATE, runs, notStore>>

\* search() lines 95-107, for the query vector and the top_k of the call
\* (load() reads neither, so they are drawn where they are first read)
SearchScan(n) ==
    /\ queries[n].pc = "search"
    /\ \E k \in 1..MaxTopK, q \in QueryVecs :
           queries' = [queries EXCEPT ![n] =
               [@ EXCEPT !.pc = "done", !.k = k, !.q = q,
                         !.out = SearchLoaded(queries[n].index, queries[n].meta, q, k)]]
    /\ UNCHANGED <<indexFile, metaFile, INDEX_STATE, runs, notStore>>

\* the caller has its answer; the next search may start
QueryReturn(n) ==
    /\ queries[n].pc = "done"
    /\ queries' = [queries EXCEPT ![n] = IdleQuery]
    /\ UNCHANGED <<indexFile, metaFile, INDEX_STATE, runs, notStore>>

---------------------------------------------------------------------------
(* backend/rag/retrieve.py: min-max normalization.  A raw score is an      *)
(* integer number of units of 1e-9; a normalized score is the exact        *)
(* fraction num / den.                                                     *)

\* math.isclose(lo, hi) is called with the default rel_tol = 1e-09 (and
\* abs_tol = 0.0): RelTolInv is 1 / rel_tol
RelTolInv == 1000000000

Abs(x) == IF x < 0 THEN -x ELSE x

Max2(a, b) == IF a >= b THEN a ELSE b

\* min(values), for a non-empty list
RECURSIVE SeqMin(_)
SeqMin(values) ==
    IF Len(values) = 1 THEN Head(values)
    ELSE LET rest == SeqMin(Tail(values))
         IN  IF rest < Head(values) THEN rest ELSE Head(values)

\* a closeness test that is plain equality
IsCloseExact(a, b) == a = b

\* math.isclose(a, b): abs(a - b) <= rel_tol * max(abs(a), abs(b))
IsClose(a, b) == Abs(a - b) <= Max2(Abs(a), Abs(b)) \div RelTolInv

One == [num |-> 1, den |-> 1]
Zero == [num |-> 0, den |-> 1]

\* _normalize_scores, on the list of the candidates' values of one
\* attribute: the list of the values it sets
NormalizeScores(values) ==
    IF values = <<>> THEN <<>>
    ELSE LET lo == SeqMin(values)
             hi == SeqMax(values, Head(values))
         IN  IF IsClose(lo, hi)
             THEN [i \in 1..Len(values) |-> IF hi > 0 THEN One ELSE Zero]
             ELSE [i \in 1..Len(values) |->
                      [num |-> values[i] - lo, den |-> hi - lo]]

\* the raw values drawn: -1e-9, 0, 1e-9, 1.0 and 1.000000001
RawValues == {-1, 0, 1, RelTolInv, RelTolInv + 1}

NormalizeIdle == normalize = [pc |-> "idle", values |-> <<>>, out |-> <<>>]

NormalizeInputs ==
    \E values \in SeqsUpTo(RawValues, MaxValues) :
        normalize = [pc |-> "call", values |-> values, out |-> <<>>]

NormalizeCall ==
    /\ normalize.pc = "call"
    /\ normalize' = [normalize EXCEPT !.pc = "done",
                                      !.out = NormalizeScores(normalize.values)]
    /\ UNCHANGED notNormalize

---------------------------------------------------------------------------
(* backend/rag/retrieve.py: the hybrid candidate builder.  Weights and     *)
(* metadata adjustments are in hundredths; a combined score is the exact   *)
(* fraction num / den.                                                     *)

\* retrieve_with_trace(..., top_k: int = 5, ...)
TopKDefault == 5
\* RAG_VECTOR_WEIGHT defaults to "0.75", RAG_LEXICAL_WEIGHT to "0.25"
VectorWeightDefault == 75
LexicalWeightDefault == 25

\* A document is what the builder reads of a passage's metadata: refs, the
\* policy references _PUB_RE finds in the title (upper case, no spaces);
\* guide, whether the title holds "mentor guide" or "accession guide"; pub
\* and domain, the fields ingest() inferred.
Docs ==
    { [refs |-> {"AFI44-102"}, guide |-> FALSE, pub |-> "AFI 44-102",
       domain |-> "general"],
      [refs |-> {"AFI41-106"}, guide |-> FALSE, pub |-> "AFI 41-106",
       domain |-> "quality"],
      [refs |-> {"AFI44-102"}, guide |-> TRUE, pub |-> "AFI 44-102",
       domain |-> "general"],
      [refs |-> {}, guide |-> TRUE, pub |-> "", domain |-> "general"],
      [refs |-> {}, guide |-> FALSE, pub |-> "", domain |-> "quality"] }

\* the inner product of a passage's vector with the query vector
RawVec == {0, 1}

\* how many query tokens the title and the text of a passage hold
Hits == {[title |-> 0, text |-> 0], [title |-> 1, text |-> 1]}

Passages == [doc : Docs, vec : RawVec, hits : Hits]

\* A question is what the builder reads of it: refs, the policy references
\* _PUB_RE finds in it; tokens, len(set(_tokenize(normalized_query)));
\* routed_domain, what _route_domain made of it.
Questions ==
    { [refs |-> {"AFI44-102"}, tokens |-> 3, routed_domain |-> "general"],
      [refs |-> {"AFI44-102"}, tokens |-> 3, routed_domain |-> "quality"],
      [refs |-> {}, tokens |-> 3, routed_domain |-> "quality"],
      [refs |-> {}, tokens |-> 0, routed_domain |-> "general"] }

\* the metadata array of a snapshot: the passage at position i has chunk_id i
MetaOf(passages) ==
    [i \in 1..Len(passages) |->
        [chunk_id |-> i,
         refs |-> passages[i].doc.refs,
         guide |-> passages[i].doc.guide,
         pub |-> passages[i].doc.pub,
         domain |-> passages[i].doc.domain,
         vec |-> passages[i].vec,
         hits |-> passages[i].hits]]

\* store.search(q_vec, top_k=max(top_k * 8, 40)) on the snapshot: the
\* passages by inner product, best first, equal ones in stored order
VectorHits(meta, top_k) ==
    LET limit == Max2(top_k * 8, 40)
        sorted == SortByScoreDesc([i \in 1..Len(meta) |->
                                      [score |-> meta[i].vec, rec |-> meta[i]]])
    IN  SubSeq(sorted, 1, IF Len(sorted) < limit THEN Len(sorted) ELSE limit)

\* _lexical_score, in units of 0.1 / len(query_tokens)
LexicalScore(query_tokens, rec) ==
    IF query_tokens = 0 THEN 0
    ELSE (7 * rec.hits.title) + (3 * rec.hits.text)

IsDoctrine(rec) == rec.pub # "" \/ rec.refs # {}

IsToolkitGuide(rec) == rec.guide

\* a filter that lets a passage through on its domain tag alone
MetadataFilterDomainOnly(rec, routed_domain) ==
    \/ routed_domain = "general"
    \/ rec.domain # "" /\ rec.domain = routed_domain

\* _metadata_filter
MetadataFilter(rec, routed_domain) ==
    \/ routed_domain = "general"
    \/ rec.domain # "" /\ rec.domain = routed_domain
    \/ IsDoctrine(rec)

\* score + h / 100
PlusHundredths(score, h) ==
    [score EXCEPT !.num = @ + h * (score.den \div 100)]

\* a re-weighting without the policy-reference boost
ApplyMetadataWeightNoBoost(question, rec, score, routed_domain) ==
    PlusHundredths(score,
        (IF IsDoctrine(rec) THEN 20 ELSE 0)
        - (IF IsToolkitGuide(rec) THEN 15 ELSE 0)
        + (IF routed_domain # "general" /\ rec.domain = routed_domain
           THEN 8 ELSE 0))

\* _apply_metadata_weight
ApplyMetadataWeight(question, rec, score, routed_domain) ==
    PlusHundredths(score,
        (IF IsDoctrine(rec) THEN 20 ELSE 0)
        - (IF IsToolkitGuide(rec) THEN 15 ELSE 0)
        + (IF routed_domain # "general" /\ rec.domain = routed_domain
           THEN 8 ELSE 0)
        + (IF question.refs # {} /\ question.refs \cap rec.refs # {}
           THEN 20 ELSE 0))

\* the second loop of _build_candidates, lines 254-264: candidates keep
\* the order in which by_chunk first got their chunk_id
RECURSIVE LexicalScan(_, _, _, _)
LexicalScan(meta, query_tokens, routed_domain, cands) ==
    IF meta = <<>> THEN cands
    ELSE LET rec == Head(meta)
             lex == LexicalScore(query_tokens, rec)
             at == {i \in 1..Len(cands) : cands[i].rec.chunk_id = rec.chunk_id}
             next ==
                 IF ~MetadataFilter(rec, routed_domain) \/ lex <= 0 THEN cands
                 ELSE IF at # {}
                      THEN LET i == CHOOSE i \in at : TRUE
                           IN  [cands EXCEPT ![i].lexical_score =
                                   Max2(cands[i].lexical_score, lex)]
                      ELSE Append(cands, [rec |-> rec, vector_score |-> 0,
                                          lexical_score |-> lex])
         IN  LexicalScan(Tail(meta), query_tokens, routed_domain, next)

\* (vector_weight * vector_score) + (lexical_weight * lexical_score)
Base(vector_weight, vector_score, lexical_weight, lexical_score) ==
    [num |-> (vector_weight * vector_score.num * lexical_score.den)
             + (lexical_weight * lexical_score.num * vector_score.den),
     den |-> 100 * vector_score.den * lexical_score.den]

\* a >= b, for fractions of positive denominators
FracGE(a, b) == a.num * b.den >= b.num * a.den

\* candidates.sort(key=combined_score, reverse=True): stable
RECURSIVE InsertByCombined(_, _)
InsertByCombined(sorted, c) ==
    IF sorted = <<>> THEN <<c>>
    ELSE IF FracGE(Head(sorted).combined_score, c.combined_score)
         THEN <<Head(sorted)>> \o InsertByCombined(Tail(sorted), c)
         ELSE <<c>> \o sorted

RECURSIVE SortByCombinedDesc(_)
SortByCombinedDesc(cs) ==
    IF cs = <<>> THEN <<>>
    ELSE InsertByCombined(SortByCombinedDesc(SubSeq(cs, 1, Len(cs) - 1)),
                          cs[Len(cs)])

\* a builder that asks the judgment service whatever the mode
RerankAlways(rerank_mode) == TRUE

\* line 276
RerankApplies(rerank_mode) == rerank_mode = "llm"

\* _build_candidates on a snapshot of fewer than 40 passages of distinct
\* chunk_ids (every passage is a vector hit), given what the judgment
\* service does if it is asked
BuildCandidates(in, service) ==
    LET hits == VectorHits(in.meta, in.top_k)
        kept == SelectSeq(hits, LAMBDA h : MetadataFilter(h.rec, in.routed_domain))
        by_chunk == LexicalScan(in.meta, in.question.tokens, in.routed_domain,
                        [i \in 1..Len(kept) |->
                            [rec |-> kept[i].rec, vector_score |-> kept[i].score,
                             lexical_score |-> 0]])
        vs == NormalizeScores([i \in 1..Len(by_chunk) |-> by_chunk[i].vector_score])
        ls == NormalizeScores([i \in 1..Len(by_chunk) |-> by_chunk[i].lexical_score])
        candidates ==
            [i \in 1..Len(by_chunk) |->
                [rec |-> by_chunk[i].rec,
                 vector_score |-> vs[i],
                 lexical_score |-> ls[i],
                 combined_score |->
                     ApplyMetadataWeight(in.question, by_chunk[i].rec,
                         Base(in.vector_weight, vs[i], in.lexical_weight, ls[i]),
                         in.routed_domain)]]
        sorted == SortByCombinedDesc(candidates)
    IN  IF RerankApplies(in.rerank_mode)
        THEN LlmRerank(sorted, MaxCandidatesDefault, service)
        ELSE Returned(sorted)

\* the judgment service, if asked: its call raises, or it answers "2"
BuilderServices ==
    {[client |-> "ok", call |-> c, pieces |-> << <<"2">> >>] : c \in {"ok", "raises"}}

\* the calls on one input: the second starts when the first has returned
Calls == {1, 2}

BuildInputs ==
    {[meta |-> MetaOf(passages),
      question |-> question,
      top_k |-> TopKDefault,
      vector_weight |-> VectorWeightDefault,
      lexical_weight |-> LexicalWeightDefault,
      rerank_mode |-> rerank_mode,
      routed_domain |-> question.routed_domain] :
        passages \in SeqsUpTo(Passages, MaxPassages),
        question \in Questions,
        rerank_mode \in {"heuristic", "llm"}}

NoBuild ==
    [meta |-> <<>>,
     question |-> [refs |-> {}, tokens |-> 0, routed_domain |-> "general"],
     top_k |-> TopKDefault,
     vector_weight |-> VectorWeightDefault,
     lexical_weight |-> LexicalWeightDefault,
     rerank_mode |-> "heuristic",
     routed_domain |-> "general"]

BuilderIdle ==
    builder = [pc |-> "idle", in |-> NoBuild, out |-> [c \in Calls |-> NoOutcome]]

BuilderInputs ==
    \E in \in BuildInputs :
        builder = [pc |-> "call", in |-> in, out |-> [c \in Calls |-> NoOutcome]]

BuildCall(c) ==
    /\ builder.pc = "call"
    /\ builder.out[c] = NoOutcome
    /\ \A b \in Calls : b < c => builder.out[b] # NoOutcome
    /\ \E service \in BuilderServices :
           builder' = [builder EXCEPT !.out[c] = BuildCandidates(builder.in, service)]
    /\ UNCHANGED notBuilder

---------------------------------------------------------------------------
(* backend/rag/chunking.py: the overlapping chunker.  A text is its        *)
(* length; the chunk text[start:end] is <<start, end>>.                    *)

\* a loop that starts each chunk where the last one ended
NextStartAtEnd(end, overlap) == end

\* line 32: start = max(0, end - overlap)
NextStart(end, overlap) == Max2(0, end - overlap)

ChunkerIdle ==
    chunker = [pc |-> "idle", text |-> 0, chunk_size |-> 1, overlap |-> 0,
               start |-> 0, chunks |-> <<>>]

ChunkerInputs ==
    \E text \in 0..MaxText, chunk_size \in 1..MaxChunkSize,
       overlap \in 0..MaxOverlap :
        chunker = [pc |-> "call", text |-> text, chunk_size |-> chunk_size,
                   overlap |-> overlap, start |-> 0, chunks |-> <<>>]

\* lines 22-26: a text of at most chunk_size characters is its own chunk
ChunkEnter ==
    /\ chunker.pc = "call"
    /\ chunker' =
           IF chunker.text <= chunker.chunk_size
           THEN [chunker EXCEPT !.pc = "done",
                                !.chunks = << <<0, chunker.text>> >>]
           ELSE [chunker EXCEPT !.pc = "loop", !.start = 0, !.chunks = <<>>]
    /\ UNCHANGED notChunker

\* lines 27-32: one turn of the while loop (the model follows a run for
\* MaxChunks turns)
ChunkStep ==
    /\ chunker.pc = "loop"
    /\ Len(chunker.chunks) < MaxChunks
    /\ chunker' =
           IF ~(chunker.start < chunker.text)
           THEN [chunker EXCEPT !.pc = "done"]
           ELSE LET end == IF chunker.start + chunker.chunk_size < chunker.text
                           THEN chunker.start + chunker.chunk_size
                           ELSE chunker.text
                    chunks == Append(chunker.chunks, <<chunker.start, end>>)
                IN  IF end >= chunker.text
                    THEN [chunker EXCEPT !.pc = "done", !.chunks = chunks]
                    ELSE [chunker EXCEPT !.chunks = chunks,
                                         !.start = NextStart(end, chunker.overlap)]
    /\ UNCHANGED notChunker

---------------------------------------------------------------------------
(* backend/rag/loaders.py and backend/rag/ingest.py: source identifiers    *)
(* and chunk identifiers.                                                  *)

\* the concatenation of a list of lists
RECURSIVE Flatten(_)
Flatten(lists) ==
    IF lists = <<>> THEN <<>> ELSE Head(lists) \o Flatten(Tail(lists))

\* What an item of sources.yaml loads as: nothing (no url, or the fetch
\* fails), or a page, given as the chunk texts chunk_policy_text makes of it.
Unloadable == <<>>
Pages == { <<"a">>, <<"a", "b">> }

\* a group of sources.yaml: its name, if it has one, and its items
Groups ==
    [name : {None, Some("web"), Some("afi")},
     items : SeqsUpTo(Pages \cup {Unloadable}, MaxItems)]

\* load_web_sources: source_id is f"{group_name}:{i+1}", here
\* <<group_name, i + 1>>
LoadWebSources(groups) ==
    Flatten([g \in 1..Len(groups) |->
        LET group_name == IF groups[g].name = None THEN "web" ELSE groups[g].name[1]
            items == groups[g].items
            loaded == SelectSeq([i \in 1..Len(items) |-> [at |-> i, page |-> items[i]]],
                                LAMBDA it : it.page # Unloadable)
        IN  [d \in 1..Len(loaded) |->
                [source_id |-> <<group_name, loaded[d].at>>,
                 pieces |-> loaded[d].page]]])

\* load_sources with toolkit_docs_dir = None
LoadSources(groups) == LoadWebSources(groups)

\* _stable_chunk_id: source_id, chunk_index and sixteen hexadecimal digits
\* of the SHA-1 of f"{source_id}|{chunk_index}|{text}".  The digest stands
\* for its input: digests of different inputs differ.
StableChunkId(source_id, chunk_index, text) ==
    [source_id |-> source_id, chunk_index |-> chunk_index,
     digest |-> <<source_id, chunk_index, text>>]

\* the loop of ingest(), lines 109-154: all_records
IngestRecords(items) ==
    Flatten([n \in 1..Len(items) |->
        [i \in 1..Len(items[n].pieces) |->
            [chunk_id |-> StableChunkId(items[n].source_id, i - 1, items[n].pieces[i]),
             source_id |-> items[n].source_id,
             chunk_index |-> i - 1,
             text |-> items[n].pieces[i]]]])

IngesterIdle == ingester = [pc |-> "idle", groups |-> <<>>, records |-> <<>>]

IngesterInputs ==
    \E groups \in SeqsUpTo(Groups, MaxGroups) :
        ingester = [pc |-> "call", groups |-> groups, records |-> <<>>]

\* ingest() lines 102-154
IngestChunks ==
    /\ ingester.pc = "call"
    /\ ingester' = [ingester EXCEPT
           !.pc = "done",
           !.records = IngestRecords(LoadSources(ingester.groups))]
    /\ UNCHANGED notIngester

---------------------------------------------------------------------------
(* scripts/answer_questions.py: the rows of the batch answers.  A text is  *)
(* the list of its sentences, an answer the list of the strings joined     *)
(* into it, a citation the position of the evidence it is formatted from.  *)

ShortSentences == {"Too short."}

\* the chunk texts of the evidence, as SENTENCE_RE.split and strip give them
Texts ==
    { <<>>,
      <<"Too short.">>,
      <<"The commander approves the request.",
        "The approval is recorded in writing.",
        "Records are kept for six years.">>,
      <<"Referrals are reviewed within three days.",
        "Too short.",
        "Urgent referrals are reviewed the same day.",
        "The reviewer documents the decision.">> }

\* Evidence: ref is what _extract_pub makes of the record's title and
\* source_id
BatchEvidence == [ref : {"AFI 44-102", "MSC Toolkit"}, sentences : Texts]

\* the loops of _extract_answer, lines 128-139, from sentence k of evidence n
RECURSIVE CollectSentences(_, _, _, _, _)
CollectSentences(evidence, n, k, sentences, used) ==
    IF Len(sentences) >= 6 \/ n > Len(evidence)
    THEN [sentences |-> sentences, used |-> used]
    ELSE IF k > Len(evidence[n].sentences)
    THEN CollectSentences(evidence, n + 1, 1, sentences, used)
    ELSE IF evidence[n].sentences[k] \in ShortSentences
    THEN CollectSentences(evidence, n, k + 1, sentences, used)
    ELSE CollectSentences(evidence, n, k + 1,
             Append(sentences, evidence[n].sentences[k]),
             IF \E u \in 1..Len(used) : used[u] = n THEN used
             ELSE Append(used, n))

\* _extract_answer
ExtractAnswer(evidence) ==
    IF evidence = <<>> THEN [answer |-> <<>>, used |-> <<>>]
    ELSE LET got == CollectSentences(evidence, 1, 1, <<>>, <<>>)
         IN  IF Len(got.sentences) < 3 THEN [answer |-> <<>>, used |-> <<>>]
             ELSE [answer |-> SubSeq(got.sentences, 1,
                                     IF Len(got.sentences) < 6
                                     THEN Len(got.sentences) ELSE 6),
                   used |-> got.used]

\* ", ".join(dict.fromkeys(refs)) for the refs of evidence[:2]
UniqueRefs(evidence) ==
    IF Len(evidence) >= 2 /\ evidence[1].ref # evidence[2].ref
    THEN <<evidence[1].ref, ", ", evidence[2].ref>>
    ELSE <<evidence[1].ref>>

\* _professional_insufficient_answer
ProfessionalInsufficientAnswer(question, evidence) ==
    IF evidence # <<>>
    THEN <<"A definitive answer is not supported by the currently indexed sources for this question. ",
           "The most relevant material reviewed was from ">>
         \o UniqueRefs(evidence)
         \o <<". ",
              "Please confirm the governing instruction in official publication repositories or with your functional authority before taking action.">>
    ELSE <<"A definitive answer is not supported by the currently indexed sources for this question. ",
           "Please confirm the governing instruction in official publication repositories or with your functional authority before taking action.">>

\* _build_row_from_evidence
BuildRowFromEvidence(qid, question, evidence) ==
    LET got == ExtractAnswer(evidence)
        citations == SubSeq(got.used, 1,
                            IF Len(got.used) < 3 THEN Len(got.used) ELSE 3)
    IN  IF got.answer = <<>>
        THEN [qid |-> qid, question |-> question,
              answer |-> ProfessionalInsufficientAnswer(question, evidence),
              citations |-> <<>>,
              status |-> "INSUFFICIENT_EVIDENCE",
              notes |-> "No sufficiently relevant chunks or not enough extractable sentences."]
        ELSE IF citations = <<>>
        THEN [qid |-> qid, question |-> question,
              answer |-> ProfessionalInsufficientAnswer(question, evidence),
              citations |-> <<>>,
              status |-> "INSUFFICIENT_EVIDENCE",
              notes |-> "Retrieved text did not produce verifiable citations."]
        ELSE [qid |-> qid, question |-> question,
              answer |-> got.answer,
              citations |-> citations,
              status |-> "OK",
              notes |-> "Extracted from top-ranked chunks."]

NoRow ==
    [qid |-> 0, question |-> "", answer |-> <<>>, citations |-> <<>>,
     status |-> "", notes |-> ""]

BatchIdle ==
    batch = [pc |-> "idle", qid |-> 0, question |-> "", evidence |-> <<>>,
             row |-> NoRow]

BatchInputs ==
    \E qid \in {1, 2}, question \in {"What policy governs X?", ""},
       evidence \in SeqsUpTo(BatchEvidence, MaxBatch) :
        batch = [pc |-> "call", qid |-> qid, question |-> question,
                 evidence |-> evidence, row |-> NoRow]

BuildRow ==
    /\ batch.pc = "call"
    /\ batch' = [batch EXCEPT
           !.pc = "done",
           !.row = BuildRowFromEvidence(batch.qid, batch.question, batch.evidence)]
    /\ UNCHANGED notBatch

---------------------------------------------------------------------------
(* backend/main.py: the citations of an /ask response, on evidence lists   *)
(* long enough for the cut to three to drop citations.                     *)

\* the passage records of the evidence: four with a locator, one (chunk 3,
\* of a blank section) without
CitePool ==
    ChunkPool \cup
    { [chunk_id |-> 5, source_id |-> "web", page |-> Some(2),
       section |-> Some(<<"3">>), subsection |-> None] }

CiteScores == {0, 1, 2}

\* the evidence lists _build_evidence may hand over: one item per chunk,
\* in any order of scores (a rerank may have reordered the candidates)
CiteEvidence ==
    { [i \in 1..Len(cs) |-> MakeEvidence(i, cs[i])] :
        cs \in { cs \in SeqsUpTo([rec : CitePool, combined_score : CiteScores],
                                 MaxCited) :
                    \A i, j \in 1..Len(cs) :
                        i # j => cs[i].rec.chunk_id # cs[j].rec.chunk_id } }

CiterIdle == citer = [pc |-> "idle", evidence |-> <<>>, out |-> <<>>]

CiterInputs ==
    \E evidence \in CiteEvidence :
        citer = [pc |-> "call", evidence |-> evidence, out |-> <<>>]

\* ask(), lines 337-340
CiteSelect ==
    /\ citer.pc = "call"
    /\ citer' = [citer EXCEPT !.pc = "done",
                              !.out = PreciseCitations(citer.evidence)]
    /\ UNCHANGED notCiter

---------------------------------------------------------------------------
(* api/main.py: the api /ask handler. *)

\* retrieve(..., top_k=5, ...)
ApiTopK == 5

ApiFaults ==
    {"none", "import_fails", "index_vanishes", "retrieve_raises", "llm_raises"}

\* a request, and with it what the handler will meet: which index files
\* exist, whether OPENAI_API_KEY is set, what fails, what retrieval ranks
\* and what the completion service sends back
ApiInputs ==
    [files : {"both", "no_meta", "no_index"},
     api_key : BOOLEAN,
     fault : ApiFaults,
     cands : AskCandLists,
     content : ServiceTexts]

NoApiInput ==
    [files |-> "both", api_key |-> TRUE, fault |-> "none", cands |-> <<>>,
     content |-> <<>>]

NoApiResponse == [status |-> 0, answer |-> <<>>, citations |-> <<>>]

ApiError(code) == [status |-> code, answer |-> <<>>, citations |-> <<>>]

ApiIdle ==
    api = [pc |-> "idle", in |-> NoApiInput, evidence |-> <<>>,
           resp |-> NoApiResponse]

ApiReceive ==
    /\ api.pc = "idle"
    /\ \E in \in ApiInputs :
           api' = [pc |-> "handle", in |-> in, evidence |-> <<>>,
                   resp |-> NoApiResponse]
    /\ UNCHANGED notApi

\* ask(payload), api/main.py lines 122-205; evidence is the handler's
\* local of that name
ApiHandle ==
    /\ api.pc = "handle"
    /\ UNCHANGED notApi
    /\ LET in == api.in
           evidence == BuildEvidence(in.cands, ApiTopK, None)
       IN  IF in.files # "both"
           THEN api' = [api EXCEPT !.pc = "replied", !.resp = ApiError(503)]
           ELSE IF ~in.api_key \/ in.fault = "import_fails"
           THEN api' = [api EXCEPT !.pc = "replied", !.resp = ApiError(500)]
           ELSE IF in.fault = "index_vanishes"
           THEN api' = [api EXCEPT !.pc = "replied", !.resp = ApiError(503)]
           ELSE IF in.fault = "retrieve_raises"
           THEN api' = [api EXCEPT !.pc = "replied", !.resp = ApiError(500)]
           ELSE IF evidence # <<>> /\ in.fault = "llm_raises"
           THEN api' = [api EXCEPT !.pc = "replied", !.evidence = evidence,
                                   !.resp = ApiError(500)]
           ELSE api' = [api EXCEPT
                    !.pc = "replied",
                    !.evidence = evidence,
                    !.resp = [status |-> 200,
                              answer |-> GenerateGroundedAnswer(evidence, in.content),
                              citations |-> [i \in 1..Len(evidence) |->
                                                evidence[i].chunk_id]]]

\* the response has been sent
ApiReply ==
    /\ api.pc = "replied"
    /\ api' = [pc |-> "idle", in |-> NoApiInput, evidence |-> <<>>,
               resp |-> NoApiResponse]
    /\ UNCHANGED notApi

---------------------------------------------------------------------------
(* backend/rag/retrieve.py lines 244-264: one call of _build_candidates    *)
(* against the persisted index while ingestion runs rebuild it.  The       *)
(* routed domain is "general", so the metadata filter keeps every record.  *)

\* line 244: top_k=max(top_k * 8, 40)
SearchTopK(top_k) == IF top_k * 8 > 40 THEN top_k * 8 ELSE 40

\* lines 257-259: the query's tokens occur in the first passage of every
\* generation and in no other
LexHit(rec) == rec[2] = 0

\* lines 248-264: by_chunk, first the vector hits, then every record of the
\* loaded metadata array with a lexical score above 0 that is not a key yet
RECURSIVE ScanMeta(_, _, _)
ScanMeta(gm, i, recs) ==
    IF i >= Size(gm) THEN recs
    ELSE LET rec == <<gm, i>>
         IN  IF LexHit(rec) /\ (\A n \in 1..Len(recs) : recs[n] # rec)
             THEN ScanMeta(gm, i + 1, Append(recs, rec))
             ELSE ScanMeta(gm, i + 1, recs)

ByChunk(vector_hits, gm) ==
    ScanMeta(gm, 0, [n \in 1..Len(vector_hits) |-> vector_hits[n].rec])

\* index, meta: the generations read by the load() inside search();
\* lex_meta: the generation of the metadata array read at line 245
RetrievalIdle ==
    retrieval = [pc |-> "idle", index |-> 0, meta |-> 0, lex_meta |-> 0,
                 hits |-> <<>>, out |-> Pending]

\* line 244, search() line 93, load() lines 82-87
RetrieveSearchReadIndex ==
    /\ retrieval.pc = "idle"
    /\ retrieval' =
           IF Missing(indexFile) \/ Missing(metaFile)
           THEN [retrieval EXCEPT !.pc = "done",
                                  !.out = OnLoadError("FileNotFoundError")]
           ELSE [retrieval EXCEPT !.pc = "search_meta",
                                  !.index = indexFile.gen]
    /\ UNCHANGED notRetrieval

\* load() lines 88-90 and search() lines 95-107
RetrieveSearchReadMeta ==
    /\ retrieval.pc = "search_meta"
    /\ \E q \in QueryVecs :
           LET found == SearchLoaded(retrieval.index, metaFile.gen, q,
                                     SearchTopK(TopKDefault))
           IN  retrieval' =
                   IF found.kind = "raised"
                   THEN [retrieval EXCEPT !.pc = "done", !.meta = metaFile.gen,
                                          !.out = found]
                   ELSE [retrieval EXCEPT !.pc = "load_index",
                                          !.meta = metaFile.gen,
                                          !.hits = found.value]
    /\ UNCHANGED notRetrieval

\* line 245, load() lines 82-87: the index read here is not used
RetrieveLoadReadIndex ==
    /\ retrieval.pc = "load_index"
    /\ retrieval' = [retrieval EXCEPT !.pc = "load_meta"]
    /\ UNCHANGED notRetrieval

\* line 245, load() lines 88-90, and the two loops of lines 248-264
RetrieveLoadReadMeta ==
    /\ retrieval.pc = "load_meta"
    /\ retrieval' =
           [retrieval EXCEPT !.pc = "done", !.lex_meta = metaFile.gen,
                             !.out = ReturnedHits(ByChunk(retrieval.hits,
                                                          metaFile.gen))]
    /\ UNCHANGED notRetrieval

---------------------------------------------------------------------------
(* backend/rag/retrieve.py _route_domain and backend/rag/ingest.py         *)
(* _infer_domain.  A text is a sequence of lower-case words; a keyword is  *)
(* a sequence of one or two words, and "k in text" holds when the words of *)
(* k stand next to each other in the text.                                 *)

MaxWords == 2

Vocabulary ==
    {"the", "supply", "logistics", "tricare", "patient", "administration",
     "safety", "hiring", "manpower", "pme", "dress", "quality", "emergency",
     "management", "facility"}

\* k in text
Contains(text, k) ==
    \E at \in 1..Len(text) :
        /\ at + Len(k) - 1 <= Len(text)
        /\ \A j \in 1..Len(k) : text[at + j - 1] = k[j]

\* any(k in text for k in keys)
AnyIn(keys, text) == \E k \in keys : Contains(text, k)

\* _route_domain, the keyword lists of lines 109-119
RouteDomain(question) ==
    IF AnyIn({<<"materiel">>, <<"logistics">>, <<"dmlss">>, <<"supply">>,
              <<"inventory">>, <<"medlog">>}, question)
    THEN "med_log"
    ELSE IF AnyIn({<<"access">>, <<"referral">>, <<"empanel">>, <<"tricare">>,
                   <<"beneficiary">>, <<"appointment">>}, question)
    THEN "access_to_care"
    ELSE IF AnyIn({<<"manpower">>, <<"umd">>, <<"position">>,
                   <<"classification">>, <<"hiring">>}, question)
    THEN "manpower"
    ELSE IF AnyIn({<<"dress">>, <<"groom">>, <<"leadership">>, <<"conduct">>,
                   <<"morale">>, <<"customs">>, <<"courtesies">>}, question)
    THEN "leadership"
    ELSE IF AnyIn({<<"quality">>, <<"peer", "review">>, <<"patient", "safety">>,
                   <<"adverse", "event">>, <<"credentialing">>}, question)
    THEN "quality"
    ELSE IF AnyIn({<<"facility">>, <<"disaster">>, <<"fire", "safety">>,
                   <<"mass", "casualty">>, <<"emergency", "management">>},
                  question)
    THEN "facilities"
    ELSE "general"

\* _infer_domain, the keyword lists of lines 63-73, on the words of
\* f"{title} {source_id}"
InferDomain(title, source_id) ==
    LET text == title \o source_id
    IN  IF AnyIn({<<"logistics">>, <<"materiel">>, <<"medlog">>, <<"dmlss">>},
                 text)
        THEN "med_log"
        ELSE IF AnyIn({<<"tricare">>, <<"patient", "administration">>,
                       <<"access">>, <<"referral">>, <<"empanel">>}, text)
        THEN "access_to_care"
        ELSE IF AnyIn({<<"manpower">>, <<"position">>, <<"umd">>,
                       <<"force", "structure">>}, text)
        THEN "manpower"
        ELSE IF AnyIn({<<"dress">>, <<"leadership">>, <<"morale">>,
                       <<"conduct">>, <<"pme">>}, text)
        THEN "leadership"
        ELSE IF AnyIn({<<"quality">>, <<"peer", "review">>,
                       <<"patient", "safety">>, <<"risk", "management">>}, text)
        THEN "quality"
        ELSE IF AnyIn({<<"facility">>, <<"disaster">>, <<"emergency">>,
                       <<"fire", "safety">>}, text)
        THEN "facilities"
        ELSE "general"

RouterIdle ==
    router = [pc |-> "idle", text |-> <<>>, routed |-> "", inferred |-> ""]

RouterInputs ==
    \E text \in SeqsUpTo(Vocabulary, MaxWords) :
        router = [pc |-> "call", text |-> text, routed |-> "", inferred |-> ""]

\* the router on the text as a question, the extractor on the text as a
\* title with the source identifier ""
RouteCall ==
    /\ router.pc = "call"
    /\ router' = [router EXCEPT !.pc = "done",
                                !.routed = RouteDomain(router.text),
                                !.inferred = InferDomain(router.text, <<>>)]
    /\ UNCHANGED notRouter

---------------------------------------------------------------------------
(* backend/rag/retrieve.py: _normalize_query on a question that is one     *)
(* policy reference and holds no acronym of _ACRONYM_EXPANSIONS.           *)

\* the most spaces drawn between the prefix and the number
MaxGap == 1

\* str.upper(), on the letters the drawn prefixes are written in
Upper(c) ==
    CASE c = "a" -> "A"
      [] c = "d" -> "D"
      [] c = "f" -> "F"
      [] c = "i" -> "I"
      [] OTHER -> c

UpperText(s) == [i \in 1..Len(s) |-> Upper(s[i])]

\* the alternatives of _POLICY_RE, line 72
PolicyPrefixes ==
    { <<"A", "F", "I">>, <<"D", "A", "F", "I">>, <<"A", "F", "M", "A", "N">>,
      <<"D", "A", "F", "M", "A", "N">>, <<"D", "H", "A", "-", "P", "I">>,
      <<"D", "H", "A", "I">> }

\* \w, on the characters of the drawn questions
WordChars == Digits \cup {"A", "D", "F", "I", "a", "d", "f", "i"}

\* how many characters at the start of s are in S: a greedy S*
RECURSIVE Run(_, _)
Run(s, S) == IF s # <<>> /\ Head(s) \in S THEN 1 + Run(Tail(s), S) ELSE 0

\* how many characters at the start of s are not in S
RECURSIVE RunNot(_, _)
RunNot(s, S) == IF s # <<>> /\ Head(s) \notin S THEN 1 + RunNot(Tail(s), S) ELSE 0

Drop(s, n) == SubSeq(s, n + 1, Len(s))

\* \b after the first n characters of s, the character before it being a
\* word character
BoundaryAfter(s, n) == n = Len(s) \/ s[n + 1] \notin WordChars

\* the scan of _POLICY_RE has read len characters of the text and has rest
\* before it
NoMatch == [ok |-> FALSE, len |-> 0, g1 |-> <<>>, g2 |-> <<>>]

\* \s*
SkipBlanks(st) ==
    LET n == Run(st.rest, Whitespace)
    IN  [st EXCEPT !.rest = Drop(@, n), !.len = @ + n, !.blanks = n]

\* (\d{1,2}), greedy
TakeFirst(st) ==
    LET n == Run(st.rest, Digits)
    IN  [st EXCEPT !.rest = Drop(@, n), !.len = @ + n,
                   !.g1 = SubSeq(st.rest, 1, n)]

\* \s*[- ]\s*: blanks, then a hyphen and more blanks, or no hyphen and one
\* of the blanks taken for [- ]
TakeSeparator(st) ==
    LET w == SkipBlanks(st)
    IN  IF w.rest # <<>> /\ Head(w.rest) = "-"
        THEN SkipBlanks([w EXCEPT !.rest = Tail(@), !.len = @ + 1,
                                  !.separated = TRUE])
        ELSE [w EXCEPT !.separated = w.blanks >= 1]

\* (\d{2,4}(?:\.\d+)?)\b: the fraction is taken when a \b follows it
TakeSecond(st, text) ==
    LET n == Run(st.rest, Digits)
        after == Drop(st.rest, n)
        frac == IF Len(after) >= 2 /\ after[1] = "." /\ after[2] \in Digits
                THEN 1 + Run(Tail(after), Digits) ELSE 0
        tail == IF frac > 0 /\ BoundaryAfter(text, st.len + n + frac)
                THEN frac ELSE 0
    IN  [st EXCEPT !.rest = Drop(@, n + tail), !.len = @ + n + tail,
                   !.g2 = SubSeq(st.rest, 1, n + tail)]

\* _POLICY_RE.match(text) at the start of text: whether it matches, the
\* length of group(0), group(1) and group(2)
PolicyMatch(text) ==
    LET fits == {x \in PolicyPrefixes :
                    /\ Len(x) <= Len(text)
                    /\ UpperText(SubSeq(text, 1, Len(x))) = x}
    IN  IF fits = {} THEN NoMatch
        ELSE
        LET p == Len(CHOOSE x \in fits : TRUE)
            st == TakeSecond(
                      TakeSeparator(
                          TakeFirst(
                              SkipBlanks([rest |-> Drop(text, p), len |-> p,
                                          blanks |-> 0, separated |-> FALSE,
                                          g1 |-> <<>>, g2 |-> <<>>]))),
                      text)
        IN  IF /\ Len(st.g1) \in 1..2
               /\ st.separated
               /\ Run(st.g2, Digits) \in 2..4
               /\ BoundaryAfter(text, st.len)
            THEN [ok |-> TRUE, len |-> st.len, g1 |-> st.g1, g2 |-> st.g2]
            ELSE NoMatch

\* match.group(0).split()[0]
FirstField(s) ==
    LET t == LStrip(s) IN SubSeq(t, 1, RunNot(t, Whitespace))

\* repl, line 92: match.group(0).split()[0].upper()
ReplPrefix(group0) == UpperText(FirstField(group0))

\* _normalize_policy_refs
NormalizePolicyRefs(text) ==
    LET m == PolicyMatch(text)
    IN  IF m.ok
        THEN ReplPrefix(SubSeq(text, 1, m.len)) \o <<" ">> \o m.g1 \o <<"-">>
                 \o m.g2 \o Drop(text, m.len)
        ELSE text

\* _normalize_query: no token of the question is an acronym to expand
NormalizeQuery(question) == Strip(NormalizePolicyRefs(Strip(question)))

Spaces(n) == [i \in 1..n |-> " "]

\* the parts a reference is written from
RefParts ==
    [prefix : {<<"A", "F", "I">>, <<"a", "f", "i">>, <<"D", "a", "f", "i">>},
     gap : 0..MaxGap,
     first : {<<"4">>, <<"4", "4">>},
     sep : {<<"-">>, <<" ">>, <<" ", "-", " ">>},
     second : {<<"1", "0">>, <<"1", "0", "2">>, <<"1", "0", "2", ".", "1">>}]

RefText(parts) ==
    parts.prefix \o Spaces(parts.gap) \o parts.first \o parts.sep \o parts.second

NoRef ==
    [prefix |-> <<"A", "F", "I">>, gap |-> 0, first |-> <<"4">>,
     sep |-> <<"-">>, second |-> <<"1", "0">>]

RefnormIdle ==
    refnorm = [pc |-> "idle", parts |-> NoRef, question |-> <<>>, out |-> <<>>]

RefnormInputs ==
    \E parts \in RefParts :
        refnorm = [pc |-> "call", parts |-> parts, question |-> RefText(parts),
                   out |-> <<>>]

NormalizeQueryCall ==
    /\ refnorm.pc = "call"
    /\ refnorm' = [refnorm EXCEPT !.pc = "done",
                                  !.out = NormalizeQuery(refnorm.question)]
    /\ UNCHANGED notRefnorm

---------------------------------------------------------------------------
(* backend/rag/chunking.py: chunk_policy_text.  A text is written in       *)
(* letters, digits, blanks and line feeds (no carriage return, no capital, *)
(* no full stop: a heading is a line that starts with a number).           *)

MaxPolicyText == 4
MaxPolicyChunk == 4

PolicyAlphabet == {"a", "1", " ", "\n"}
LineSpace == {" ", "\n"}
PolicyWordChars == {"a", "1"}

\* str.strip() of a text with line feeds
RECURSIVE RStripOf(_, _)
RStripOf(s, W) ==
    IF s # <<>> /\ s[Len(s)] \in W THEN RStripOf(SubSeq(s, 1, Len(s) - 1), W)
    ELSE s

StripOf(s, W) == RStripOf(Drop(s, Run(s, W)), W)

\* str.split("\n")
RECURSIVE SplitLines(_)
SplitLines(s) ==
    LET n == RunNot(s, {"\n"})
    IN  IF n = Len(s) THEN <<s>>
        ELSE <<SubSeq(s, 1, n)>> \o SplitLines(Drop(s, n + 1))

\* "\n".join(lines)
RECURSIVE JoinLines(_)
JoinLines(lines) ==
    IF lines = <<>> THEN <<>>
    ELSE IF Len(lines) = 1 THEN lines[1]
    ELSE lines[1] \o <<"\n">> \o JoinLines(Tail(lines))

\* a chunker that knows no headings
IsHeadingNever(line) == FALSE

\* HEADING_RE.match(line): of its alternatives only the numbered outline,
\* \d+(?:\.\d+){0,4} followed by \b, can match a line of this alphabet
IsHeading(line) ==
    LET d == Run(line, {"1"})
    IN  d >= 1 /\ (d = Len(line) \/ line[d + 1] \notin PolicyWordChars)

\* SUBSECTION_RE.match(line): ^\d+(?:\.\d+){1,6}\b needs a full stop
IsSubsection(line) == FALSE

\* flush_segment, lines 69-75: segments with the segment of segment_lines
Flush(st) ==
    LET segment_text == StripOf(JoinLines(st.segment_lines), LineSpace)
    IN  IF st.segment_lines = <<>> THEN st
        ELSE [st EXCEPT
                 !.segment_lines = <<>>,
                 !.segments =
                     IF segment_text # <<>>
                     THEN Append(@, [text |-> segment_text,
                                     section |-> st.section,
                                     subsection |-> st.subsection])
                     ELSE @]

\* the loop of lines 77-98 and the flush of line 100
RECURSIVE ScanLines(_, _)
ScanLines(lines, st) ==
    IF lines = <<>> THEN Flush(st)
    ELSE LET line == StripOf(Head(lines), LineSpace)
         IN  IF line = <<>> THEN ScanLines(Tail(lines), st)
             ELSE IF IsHeading(line)
             THEN ScanLines(Tail(lines),
                      [Flush(st) EXCEPT
                          !.section = Some(line),
                          !.subsection = IF IsSubsection(line) THEN Some(line)
                                         ELSE None,
                          !.segment_lines = <<line>>])
             ELSE IF IsSubsection(line)
             THEN ScanLines(Tail(lines),
                      [Flush(st) EXCEPT !.subsection = Some(line),
                                        !.segment_lines = <<line>>])
             ELSE ScanLines(Tail(lines),
                      [st EXCEPT !.segment_lines = Append(@, line)])

\* the while loop of _chunk_with_overlap on the characters of a text, for
\* an overlap below the chunk size
RECURSIVE Windows(_, _, _, _)
Windows(text, chunk_size, overlap, start) ==
    LET end == IF start + chunk_size < Len(text) THEN start + chunk_size
               ELSE Len(text)
    IN  <<SubSeq(text, start + 1, end)>> \o
            (IF end >= Len(text) THEN <<>>
             ELSE Windows(text, chunk_size, overlap, NextStart(end, overlap)))

\* _chunk_with_overlap
ChunkWithOverlap(text, chunk_size, overlap) ==
    IF Len(text) <= chunk_size THEN <<text>>
    ELSE Windows(text, chunk_size, overlap, 0)

\* lines 105-111: the stripped chunks of every segment, the empty ones
\* left out
RECURSIVE SegmentPieces(_, _, _)
SegmentPieces(segments, chunk_size, overlap) ==
    IF segments = <<>> THEN <<>>
    ELSE LET seg == Head(segments)
             chunks == ChunkWithOverlap(seg.text, chunk_size, overlap)
             stripped == [i \in 1..Len(chunks) |-> StripOf(chunks[i], LineSpace)]
             kept == SelectSeq(stripped, LAMBDA ch : ch # <<>>)
         IN  [i \in 1..Len(kept) |->
                 [text |-> kept[i], section |-> seg.section,
                  subsection |-> seg.subsection]]
             \o SegmentPieces(Tail(segments), chunk_size, overlap)

\* chunk_policy_text
ChunkPolicyText(text, chunk_size, overlap) ==
    LET cleaned == StripOf(text, LineSpace)
        scanned == ScanLines(SplitLines(cleaned),
                       [section |-> None, subsection |-> None,
                        segment_lines |-> <<>>, segments |-> <<>>])
    IN  IF cleaned = <<>> THEN <<>>
        ELSE IF scanned.segments = <<>>
        THEN LET chunks == ChunkWithOverlap(cleaned, chunk_size, overlap)
             IN  [i \in 1..Len(chunks) |->
                     [text |-> chunks[i], section |-> None, subsection |-> None]]
        ELSE SegmentPieces(scanned.segments, chunk_size, overlap)

PolicyIdle ==
    policy = [pc |-> "idle", text |-> <<>>, chunk_size |-> 1, overlap |-> 0,
              pieces |-> <<>>]

PolicyInputs ==
    \E text \in SeqsUpTo(PolicyAlphabet, MaxPolicyText),
       chunk_size \in 1..MaxPolicyChunk :
        \E overlap \in 0..(chunk_size - 1) :
            policy = [pc |-> "call", text |-> text, chunk_size |-> chunk_size,
                      overlap |-> overlap, pieces |-> <<>>]

ChunkPolicyCall ==
    /\ policy.pc = "call"
    /\ policy' = [policy EXCEPT
           !.pc = "done",
           !.pieces = ChunkPolicyText(policy.text, policy.chunk_size,
                                      policy.overlap)]
    /\ UNCHANGED notPolicy

---------------------------------------------------------------------------
(* backend/rag/ingest.py lines 158-172 and backend/rag/vectors.py save and *)
(* search: the vectors of the index.  A component is an integer number of  *)
(* tenths, so a unit vector has the squared norm 100 and the inner product *)
(* 1.0 is 100.                                                             *)

MaxStored == 2

\* what the embedding gateway may return for a text
Components == {-10, 0, 6, 8, 20}
Embeddings == {<<x, y>> : x, y \in Components}

\* what embed_query returns for the questions drawn: unit vectors
UnitQueries == {<<10, 0>>, <<6, 8>>}

\* ingest() line 162 and save() lines 66-67: the array is float32 as
\* embed_texts returned it (openai_embeddings.py line 63), so neither
\* np.asarray(vectors, dtype=np.float32) nor astype changes a value;
\* save() lines 72-74: index.add(vectors) stores the rows as they are
IndexAdd(vectors) == vectors

\* IndexFlatIP.search on the stored rows: the inner products, best first
IndexScores(stored, q) ==
    SortByScoreDesc([i \in 1..Len(stored) |->
                        [score |-> InnerProduct(q, stored[i]), rec |-> i]])

IndexerIdle ==
    indexer = [pc |-> "idle", vectors |-> <<>>, stored |-> <<>>, hits |-> <<>>]

IndexerInputs ==
    \E vectors \in SeqsUpTo(Embeddings, MaxStored) :
        indexer = [pc |-> "call", vectors |-> vectors, stored |-> <<>>,
                   hits |-> <<>>]

\* ingest() lines 158-172 with save(): no text, no build; otherwise one
\* vector for each of the records, and the index holds them
IndexBuild ==
    /\ indexer.pc = "call"
    /\ indexer' =
           IF indexer.vectors = <<>>
           THEN [indexer EXCEPT !.pc = "failed"]
           ELSE [indexer EXCEPT !.pc = "built",
                                !.stored = IndexAdd(indexer.vectors)]
    /\ UNCHANGED notIndexer

\* search() lines 95-107 on the built index
IndexSearch ==
    /\ indexer.pc = "built"
    /\ \E q \in UnitQueries :
           indexer' = [indexer EXCEPT !.pc = "searched",
                                      !.hits = IndexScores(indexer.stored, q)]
    /\ UNCHANGED notIndexer

---------------------------------------------------------------------------
(* The specifications: one per component, the others at rest. *)

ServingIdle == GateIdle /\ AskIdle /\ SelIdle /\ RerankIdle /\ StoreIdle


OfflineIdle ==
    /\ NormalizeIdle
    /\ BuilderIdle
    /\ ChunkerIdle
    /\ IngesterIdle
    /\ BatchIdle
    /\ CiterIdle
    /\ ApiIdle
    /\ IndexerIdle
    /\ PolicyIdle
    /\ RefnormIdle
    /\ RouterIdle
    /\ RetrievalIdle

InitGate ==
    GateInputs /\ AskIdle /\ SelIdle /\ RerankIdle /\ StoreIdle /\ OfflineIdle

SpecGate == InitGate /\ [][GateCall]_vars

Init == ServingIdle /\ OfflineIdle

InitNormalize ==
    /\ ServingIdle
    /\ NormalizeInputs
    /\ BuilderIdle
    /\ ChunkerIdle
    /\ IngesterIdle
    /\ BatchIdle
    /\ CiterIdle
    /\ ApiIdle
    /\ IndexerIdle
    /\ PolicyIdle
    /\ RefnormIdle
    /\ RouterIdle
    /\ RetrievalIdle

SpecNormalize == InitNormalize /\ [][NormalizeCall]_vars

InitBuilder ==
    /\ ServingIdle
    /\ NormalizeIdle
    /\ BuilderInputs
    /\ ChunkerIdle
    /\ IngesterIdle
    /\ BatchIdle
    /\ CiterIdle
    /\ ApiIdle
    /\ IndexerIdle
    /\ PolicyIdle
    /\ RefnormIdle
    /\ RouterIdle
    /\ RetrievalIdle

BuilderNext == \E c \in Calls : BuildCall(c)

SpecBuilder == InitBuilder /\ [][BuilderNext]_vars

InitChunker ==
    /\ ServingIdle
    /\ NormalizeIdle
    /\ BuilderIdle
    /\ ChunkerInputs
    /\ IngesterIdle
    /\ BatchIdle
    /\ CiterIdle
    /\ ApiIdle
    /\ IndexerIdle
    /\ PolicyIdle
    /\ RefnormIdle
    /\ RouterIdle
    /\ RetrievalIdle

ChunkerNext == ChunkEnter \/ ChunkStep

SpecChunker == InitChunker /\ [][ChunkerNext]_vars

InitIngester ==
    /\ ServingIdle
    /\ NormalizeIdle
    /\ BuilderIdle
    /\ ChunkerIdle
    /\ IngesterInputs
    /\ BatchIdle
    /\ CiterIdle
    /\ ApiIdle
    /\ IndexerIdle
    /\ PolicyIdle
    /\ RefnormIdle
    /\ RouterIdle
    /\ RetrievalIdle

SpecIngester == InitIngester /\ [][IngestChunks]_vars

InitBatch ==
    /\ ServingIdle
    /\ NormalizeIdle
    /\ BuilderIdle
    /\ ChunkerIdle
    /\ IngesterIdle
    /\ BatchInputs
    /\ CiterIdle
    /\ ApiIdle
    /\ IndexerIdle
    /\ PolicyIdle
    /\ RefnormIdle
    /\ RouterIdle
    /\ RetrievalIdle

SpecBatch == InitBatch /\ [][BuildRow]_vars

InitCiter ==
    /\ ServingIdle
    /\ NormalizeIdle
    /\ BuilderIdle
    /\ ChunkerIdle
    /\ IngesterIdle
    /\ BatchIdle
    /\ CiterInputs
    /\ ApiIdle
    /\ IndexerIdle
    /\ PolicyIdle
    /\ RefnormIdle
    /\ RouterIdle
    /\ RetrievalIdle

SpecCiter == InitCiter /\ [][CiteSelect]_vars

ApiNext == ApiReceive \/ ApiHandle \/ ApiReply

SpecApi == Init /\ [][ApiNext]_vars

AskNext == AskReceive \/ AskHandle \/ AskReply

SpecAsk == Init /\ [][AskNext]_vars

InitSelect ==
    GateIdle /\ AskIdle /\ SelInputs /\ RerankIdle /\ StoreIdle /\ OfflineIdle

SpecSelect == InitSelect /\ [][SelCall]_vars

InitRerank ==
    GateIdle /\ AskIdle /\ SelIdle /\ RerankInputs /\ StoreIdle /\ OfflineIdle

SpecRerank == InitRerank /\ [][RerankCall]_vars

StoreNext ==
    \/ \E r \in Runs : IngestBuild(r)
    \/ \E r \in Runs : SaveWriteIndex(r)
    \/ \E r \in Runs : SaveWriteMeta(r)
    \/ \E r \in Runs : IngestPublish(r)
    \/ \E n \in Queries : QueryStart(n)
    \/ \E n \in Queries : LoadCheckIndex(n)
    \/ \E n \in Queries : LoadCheckMeta(n)
    \/ \E n \in Queries : LoadReadIndex(n)
    \/ \E n \in Queries : LoadReadMeta(n)
    \/ \E n \in Queries : SearchScan(n)
    \/ \E n \in Queries : QueryReturn(n)

SpecStore == Init /\ [][StoreNext]_vars

\* the operator starts a rebuild only when no other rebuild is under way
ExclusiveIngestBuild(r) ==
    /\ \A o \in Runs \ {r} : runs[o].pc \in {"idle", "failed", "done"}
    /\ IngestBuild(r)

StoreSerialNext ==
    \/ \E r \in Runs : ExclusiveIngestBuild(r)
    \/ \E r \in Runs : SaveWriteIndex(r)
    \/ \E r \in Runs : SaveWriteMeta(r)
    \/ \E r \in Runs : IngestPublish(r)
    \/ \E n \in Queries : QueryStart(n)
    \/ \E n \in Queries : LoadCheckIndex(n)
    \/ \E n \in Queries : LoadCheckMeta(n)
    \/ \E n \in Queries : LoadReadIndex(n)
    \/ \E n \in Queries : LoadReadMeta(n)
    \/ \E n \in Queries : SearchScan(n)
    \/ \E n \in Queries : QueryReturn(n)

SpecStoreSerial == Init /\ [][StoreSerialNext]_vars

RetrievalNext ==
    \/ \E r \in Runs : ExclusiveIngestBuild(r)
    \/ \E r \in Runs : SaveWriteIndex(r)
    \/ \E r \in Runs : SaveWriteMeta(r)
    \/ \E r \in Runs : IngestPublish(r)
    \/ RetrieveSearchReadIndex
    \/ RetrieveSearchReadMeta
    \/ RetrieveLoadReadIndex
    \/ RetrieveLoadReadMeta

SpecRetrieval == Init /\ [][RetrievalNext]_vars

InitRouter ==
    /\ ServingIdle
    /\ NormalizeIdle
    /\ BuilderIdle
    /\ ChunkerIdle
    /\ IngesterIdle
    /\ BatchIdle
    /\ CiterIdle
    /\ ApiIdle
    /\ IndexerIdle
    /\ PolicyIdle
    /\ RefnormIdle
    /\ RetrievalIdle
    /\ RouterInputs

SpecRouter == InitRouter /\ [][RouteCall]_vars

InitRefnorm ==
    /\ ServingIdle
    /\ NormalizeIdle
    /\ BuilderIdle
    /\ ChunkerIdle
    /\ IngesterIdle
    /\ BatchIdle
    /\ CiterIdle
    /\ ApiIdle
    /\ IndexerIdle
    /\ PolicyIdle
    /\ RetrievalIdle
    /\ RouterIdle
    /\ RefnormInputs

SpecRefnorm == InitRefnorm /\ [][NormalizeQueryCall]_vars

InitPolicy ==
    /\ ServingIdle
    /\ NormalizeIdle
    /\ BuilderIdle
    /\ ChunkerIdle
    /\ IngesterIdle
    /\ BatchIdle
    /\ CiterIdle
    /\ ApiIdle
    /\ IndexerIdle
    /\ RetrievalIdle
    /\ RouterIdle
    /\ RefnormIdle
    /\ PolicyInputs

SpecPolicy == InitPolicy /\ [][ChunkPolicyCall]_vars

InitIndexer ==
    /\ ServingIdle
    /\ NormalizeIdle
    /\ BuilderIdle
    /\ ChunkerIdle
    /\ IngesterIdle
    /\ BatchIdle
    /\ CiterIdle
    /\ ApiIdle
    /\ RetrievalIdle
    /\ RouterIdle
    /\ RefnormIdle
    /\ PolicyIdle
    /\ IndexerInputs

IndexerNext == IndexBuild \/ IndexSearch

SpecIndexer == InitIndexer /\ [][IndexerNext]_vars

\* rebuilds one at a time, any step of which may fail, and one retrieval
\* call that reads what they leave
PersistNext ==
    \/ \E r \in Runs : ExclusiveIngestBuild(r)
    \/ \E r \in Runs : SaveWriteIndex(r)
    \/ \E r \in Runs : SaveWriteIndexFails(r)
    \/ \E r \in Runs : SaveWriteMeta(r)
    \/ \E r \in Runs : SaveWriteMetaFails(r)
    \/ \E r \in Runs : IngestPublish(r)
    \/ RetrieveSearchReadIndex
    \/ RetrieveSearchReadMeta
    \/ RetrieveLoadReadIndex
    \/ RetrieveLoadReadMeta

SpecPersist == Init /\ [][PersistNext]_vars

---------------------------------------------------------------------------
(* The claims. *)

\* A scan of a text for "[E", one or more digits, "]": seen is how much of
\* a marker the characters just before position i make up (0: nothing,
\* 1: "[", 2: "[E", 3: "[E" and digits).
RECURSIVE MarkerScan(_, _, _)
MarkerScan(text, i, seen) ==
    IF i > Len(text) THEN FALSE
    ELSE LET c == text[i]
         IN  IF seen = 3 /\ c = "]" THEN TRUE
             ELSE IF seen \in {2, 3} /\ c \in Digits THEN MarkerScan(text, i + 1, 3)
             ELSE IF seen = 1 /\ c = "E" THEN MarkerScan(text, i + 1, 2)
             ELSE IF c = "[" THEN MarkerScan(text, i + 1, 1)
             ELSE MarkerScan(text, i + 1, 0)

HoldsMarker(text) == MarkerScan(text, 1, 0)

\* C1: _is_grounded returns true if and only if the evidence list is not
\* empty, some evidence score (so the highest) is at least min_top_score,
\* and the answer holds a marker [E<digits>].
C1_GroundedIff ==
    gPc = "done" =>
        (gResult <=>
            /\ gEvidence # <<>>
            /\ \E i \in 1..Len(gEvidence) : gEvidence[i].score >= gMin
            /\ HoldsMarker(gAnswer))

\* the gate opens on two pieces of evidence
C1_Witness ==
    gPc = "done" /\ gResult /\ Len(gEvidence) = 2 /\ gMin > 0

\* C2: a successful /ask response that is not grounded carries the fixed
\* statement; an answer other than the fixed statement is the generated
\* text of a grounded response.
C2_UngroundedIsFixed ==
    (askPc = "replied" /\ askResp.status = 200) =>
        /\ ~askResp.grounded => askResp.answer = INSUFFICIENT
        /\ askResp.answer # INSUFFICIENT =>
               askResp.grounded /\ askGen = Some(askResp.answer)

\* a generated text with a marker is discarded: no citation has a locator
C2_Witness ==
    /\ askPc = "replied"
    /\ askResp.status = 200
    /\ ~askResp.grounded
    /\ askGen # None
    /\ AnswerHasCitationMarkers(askGen[1])
    /\ askResp.answer = INSUFFICIENT

\* C3, as claimed: whenever allowed_sources is supplied, the empty list
\* included, every evidence item's source_id is a member of it.
C3_AnySuppliedList ==
    (selPc = "done" /\ selAllowed # None) =>
        \A i \in 1..Len(selOut) : selOut[i].source_id \in selAllowed[1]

\* C3, amended: whenever a non-empty allowed_sources is supplied, every
\* evidence item's source_id is a member of it.
C3_NonEmptyList ==
    (selPc = "done" /\ selAllowed # None /\ selAllowed[1] # {}) =>
        \A i \in 1..Len(selOut) : selOut[i].source_id \in selAllowed[1]

\* a candidate outside a non-empty allow-list is dropped, another is kept
C3_Witness ==
    /\ selPc = "done"
    /\ selAllowed # None
    /\ selAllowed[1] # {}
    /\ \E i \in 1..Len(selCands) : selCands[i].rec.source_id \notin selAllowed[1]
    /\ selOut # <<>>

\* the candidates the allow-list lets through, in ranked order
Survivors(cands, allowed_sources) ==
    SelectSeq(cands, LAMBDA c : ~Skips(c, allowed_sources))

\* C4: _build_evidence returns exactly the first min(top_k, survivors)
\* surviving candidates in ranked order, so never more than top_k items.
C4_FirstTopK ==
    selPc = "done" =>
        LET surv == Survivors(selCands, selAllowed)
            n == IF selTopK < Len(surv) THEN selTopK ELSE Len(surv)
        IN  /\ Len(selOut) = n
            /\ Len(selOut) <= selTopK
            /\ \A i \in 1..Len(selOut) :
                   i <= Len(surv) /\ selOut[i].chunk_id = surv[i].rec.chunk_id

\* C5: the index and the metadata array a load() has read belong to the
\* same generation, and every hit of a search is a record of the generation
\* of the index that was searched.
C5_LoadSeesOneGeneration ==
    \A n \in Queries :
        /\ queries[n].load = "ok" => queries[n].index = queries[n].meta
        /\ queries[n].out.kind = "returned" =>
               \A h \in 1..Len(queries[n].out.value) :
                   queries[n].out.value[h].rec[1] = queries[n].index

\* C6: once every ingestion run has finished, faiss.index and meta.json
\* belong to one generation.
C6_OneGenerationPersisted ==
    (\A r \in Runs : runs[r].pc \in {"idle", "failed", "done"}) =>
        indexFile.gen = metaFile.gen

\* the rerank step failed: the client or the call raised, the reply held no
\* choice, or the reply held no parseable index list
RerankFailed(service) ==
    \/ service.client = "raises"
    \/ service.call # "ok"
    \/ ParseRaises(service.pieces)
    \/ ParseOrder(service.pieces) = <<>>

\* C7: on any failure of the rerank step _llm_rerank raises nothing and
\* returns the candidates in the input order.
C7_FailsOpen ==
    (rrPc = "done" /\ RerankFailed(rrService)) => rrOut = Returned(rrCands)

\* C8: whatever the reply, the returned list is a permutation of the input
\* list, and the candidates beyond the first max_candidates keep their
\* positions.
C8_Permutation ==
    (rrPc = "done" /\ rrOut.kind = "returned") =>
        /\ Len(rrOut.value) = Len(rrCands)
        /\ \A c \in Range(rrCands) :
               Cardinality({i \in 1..Len(rrOut.value) : rrOut.value[i] = c}) = 1
        /\ \A i \in (MaxCandidatesDefault + 1)..Len(rrCands) :
               i <= Len(rrOut.value) /\ rrOut.value[i] = rrCands[i]

\* C9, as claimed: search() on a cold index returns an empty list and does
\* not raise.
C9_ColdSearchEmpty ==
    \A n \in Queries :
        (queries[n].pc = "done" /\ queries[n].cold) =>
            queries[n].out = ReturnedHits(<<>>)

\* C9, amended: search() on a cold index raises the FileNotFoundError of
\* load() and returns no result list.
C9_ColdSearchRaises ==
    \A n \in Queries :
        (queries[n].pc = "done" /\ queries[n].cold) =>
            queries[n].out = RaisedExc("FileNotFoundError")

\* a search is over on an index no run has written yet
C9_Witness ==
    \E n \in Queries :
        /\ queries[n].pc = "done"
        /\ queries[n].cold
        /\ queries[n].out.kind = "raised"
        /\ ~indexFile.exists

\* C10: a load() that found the index blob or the metadata array absent
\* raises FileNotFoundError and has read neither; a load() that returns
\* has read both.
C10_LoadNotFound ==
    \A n \in Queries :
        /\ (queries[n].cold /\ queries[n].pc \notin {"idle", "check_index", "check_meta"}) =>
               /\ queries[n].load = "FileNotFoundError"
               /\ queries[n].index = 0
               /\ queries[n].meta = 0
        /\ queries[n].load = "ok" => (queries[n].index # 0 /\ queries[n].meta # 0)

\* a load finds the index blob written and the metadata array still absent
C10_Witness ==
    \E n \in Queries :
        /\ queries[n].cold
        /\ queries[n].load = "FileNotFoundError"
        /\ indexFile.exists
        /\ ~metaFile.exists

\* C11: a build whose vectors are not one row per passage record, or form
\* no (N, D) array, fails before writing: the run ends as failed and
\* neither faiss.index nor meta.json holds anything it wrote.
C11_BadShapeWritesNothing ==
    \A r \in Runs :
        runs[r].bad =>
            /\ runs[r].pc = "failed"
            /\ indexFile # Written(r)
            /\ metaFile # Written(r)

\* a build is refused for its shape and the index of an earlier build stands
C11_Witness ==
    \E r, o \in Runs :
        /\ runs[r].bad
        /\ runs[r].pc = "failed"
        /\ runs[o].pc = "done"
        /\ indexFile = Written(o)
        /\ metaFile = Written(o)

\* C12: search(query_vector, k) on a built index of n passages (index and
\* metadata of one generation) returns exactly min(k, n) pairs, of distinct
\* passages, in non-increasing score order, each score the inner product of
\* the query with the vector stored at the position of its record, and no
\* passage left out scores higher than one returned.
C12_TopKByInnerProduct ==
    \A n \in Queries :
        (queries[n].out.kind = "returned" /\ queries[n].index = queries[n].meta) =>
            LET g == queries[n].index
                q == queries[n].q
                k == queries[n].k
                hits == queries[n].out.value
                found == {hits[h].rec[2] : h \in 1..Len(hits)}
            IN  /\ Len(hits) = IF k < Size(g) THEN k ELSE Size(g)
                /\ Cardinality(found) = Len(hits)
                /\ \A h \in 1..Len(hits) :
                       /\ hits[h].rec[1] = g
                       /\ hits[h].rec[2] \in 0..(Size(g) - 1)
                       /\ hits[h].score = InnerProduct(q, Vector(g, hits[h].rec[2]))
                       /\ h > 1 => hits[h - 1].score >= hits[h].score
                       /\ \A p \in (0..(Size(g) - 1)) \ found :
                              InnerProduct(q, Vector(g, p)) <= hits[h].score

\* vectors [1,0], [0,1], [0.7,0.7], query [1,0], top_k = 2: the first
\* passage, then the third, and not the second
C12_Witness ==
    \E n \in Queries :
        /\ queries[n].out.kind = "returned"
        /\ queries[n].index = queries[n].meta
        /\ Size(queries[n].index) = 3
        /\ [p \in 1..3 |-> Vector(queries[n].index, p - 1)] = VecPool
        /\ queries[n].q = <<10, 0>>
        /\ queries[n].k = 2
        /\ queries[n].out.value =
               << [score |-> 100, rec |-> <<queries[n].index, 0>>],
                  [score |-> 70, rec |-> <<queries[n].index, 2>>] >>

\* a search asks for more passages than the index holds and gets them all
C12_WitnessFewer ==
    \E n \in Queries :
        /\ queries[n].out.kind = "returned"
        /\ queries[n].index = queries[n].meta
        /\ queries[n].k > Size(queries[n].index)
        /\ Len(queries[n].out.value) = Size(queries[n].index)

\* C15, as claimed: on a non-empty candidate set, if all raw values are
\* equal every value becomes 1.0 when the shared value is positive and 0.0
\* otherwise; if they are not all equal the minimum becomes 0.0, the
\* maximum becomes 1.0 and every value lies in [0, 1].
C15_DistinctSpreads ==
    (normalize.pc = "done" /\ normalize.values # <<>>) =>
        LET values == normalize.values
            out == normalize.out
            lo == SeqMin(values)
            hi == SeqMax(values, Head(values))
        IN  /\ Len(out) = Len(values)
            /\ lo = hi =>
                   \A i \in 1..Len(out) : out[i] = IF hi > 0 THEN One ELSE Zero
            /\ lo # hi =>
                   \A i \in 1..Len(out) :
                       /\ out[i].den > 0
                       /\ 0 <= out[i].num /\ out[i].num <= out[i].den
                       /\ values[i] = lo => out[i].num = 0
                       /\ values[i] = hi => out[i].num = out[i].den

\* C15, amended: if the minimum and the maximum are within the relative
\* tolerance 1e-9 of math.isclose (so also if all values are equal), every
\* value becomes 1.0 when the maximum is positive and 0.0 otherwise;
\* otherwise the minimum becomes 0.0, the maximum becomes 1.0 and every
\* value lies in [0, 1].
C15_SpreadsBeyondTolerance ==
    (normalize.pc = "done" /\ normalize.values # <<>>) =>
        LET values == normalize.values
            out == normalize.out
            lo == SeqMin(values)
            hi == SeqMax(values, Head(values))
            near == (hi - lo) <= Max2(Abs(lo), Abs(hi)) \div RelTolInv
        IN  /\ Len(out) = Len(values)
            /\ lo = hi => near
            /\ near =>
                   \A i \in 1..Len(out) : out[i] = IF hi > 0 THEN One ELSE Zero
            /\ ~near =>
                   \A i \in 1..Len(out) :
                       /\ out[i].den > 0
                       /\ 0 <= out[i].num /\ out[i].num <= out[i].den
                       /\ values[i] = lo => out[i].num = 0
                       /\ values[i] = hi => out[i].num = out[i].den

\* 1.0 and 1.000000001 are normalized: both become 1.0
C15_Witness ==
    /\ normalize.pc = "done"
    /\ \E i, j \in 1..Len(normalize.values) :
           normalize.values[i] < normalize.values[j]
    /\ \A i \in 1..Len(normalize.out) : normalize.out[i] = One

\* the candidate's title holds a policy reference of the question
TitleHoldsRef(question, rec) == question.refs \cap rec.refs # {}

\* C13, as claimed: when the question holds a policy reference and a
\* candidate's title holds it, the builder ranks that candidate strictly
\* above every candidate of the same vector similarity whose title lacks
\* it (no judgment service reorders the list).
C13_RefAboveSameVector ==
    (builder.out[1].kind = "returned" /\ builder.in.rerank_mode # "llm") =>
        LET v == builder.out[1].value
            question == builder.in.question
        IN  \A i, j \in 1..Len(v) :
                ( /\ TitleHoldsRef(question, v[i].rec)
                  /\ ~TitleHoldsRef(question, v[j].rec)
                  /\ v[i].rec.vec = v[j].rec.vec )
                => /\ i < j
                   /\ ~FracGE(v[j].combined_score, v[i].combined_score)

\* the two candidates have the same lexical score and get the same
\* doctrine, toolkit-guide and domain adjustments
OtherwiseEqual(in, a, b) ==
    /\ LexicalScore(in.question.tokens, a) = LexicalScore(in.question.tokens, b)
    /\ IsDoctrine(a) = IsDoctrine(b)
    /\ IsToolkitGuide(a) = IsToolkitGuide(b)
    /\ (in.routed_domain # "general" /\ a.domain = in.routed_domain)
           = (in.routed_domain # "general" /\ b.domain = in.routed_domain)

\* C13, amended: when the question holds a policy reference and a
\* candidate's title holds it, the builder ranks that candidate strictly
\* above every candidate whose title lacks it and that has the same vector
\* similarity, the same lexical score and the same doctrine, toolkit-guide
\* and domain adjustments (no judgment service reorders the list).
C13_RefAboveOtherwiseEqual ==
    (builder.out[1].kind = "returned" /\ builder.in.rerank_mode # "llm") =>
        LET v == builder.out[1].value
            question == builder.in.question
        IN  \A i, j \in 1..Len(v) :
                ( /\ TitleHoldsRef(question, v[i].rec)
                  /\ ~TitleHoldsRef(question, v[j].rec)
                  /\ v[i].rec.vec = v[j].rec.vec
                  /\ OtherwiseEqual(builder.in, v[i].rec, v[j].rec) )
                => /\ i < j
                   /\ ~FracGE(v[j].combined_score, v[i].combined_score)

\* the passage whose title holds the reference is stored after an
\* otherwise equal passage without it, and is ranked before it
C13_Witness ==
    /\ builder.out[1].kind = "returned"
    /\ builder.in.rerank_mode # "llm"
    /\ LET v == builder.out[1].value
       IN  \E i, j \in 1..Len(v) :
               /\ i < j
               /\ v[i].rec.chunk_id > v[j].rec.chunk_id
               /\ TitleHoldsRef(builder.in.question, v[i].rec)
               /\ ~TitleHoldsRef(builder.in.question, v[j].rec)
               /\ v[i].rec.vec = v[j].rec.vec
               /\ OtherwiseEqual(builder.in, v[i].rec, v[j].rec)

C16_ChunksCoverText ==
    ( /\ chunker.pc \in {"loop", "done"}
      /\ chunker.text > chunker.chunk_size
      /\ chunker.overlap < chunker.chunk_size ) =>
        LET chunks == chunker.chunks
        IN  /\ chunker.pc = "loop" => Len(chunks) < MaxChunks
            /\ chunker.pc = "done" =>
                   /\ chunks # <<>>
                   /\ chunks[1][1] = 0
                   /\ chunks[Len(chunks)][2] = chunker.text
                   /\ \A i \in 1..Len(chunks) :
                          /\ chunks[i][2] - chunks[i][1] <= chunker.chunk_size
                          /\ i > 1 =>
                                 chunks[i][1] <= chunks[i - 1][2] - chunker.overlap
                   /\ \A p \in 0..(chunker.text - 1) :
                          \E i \in 1..Len(chunks) :
                              chunks[i][1] <= p /\ p < chunks[i][2]

\* a text is cut into three or more chunks that overlap
C16_Witness ==
    /\ chunker.pc = "done"
    /\ chunker.overlap > 0
    /\ chunker.overlap < chunker.chunk_size
    /\ Len(chunker.chunks) >= 3

\* C17: after an ingestion run the chunk_id values of all passage records
\* of the generation are pairwise distinct, whatever the loaded source
\* items, items sharing a source identifier included.
C17_ChunkIdsDistinct ==
    ingester.pc = "done" =>
        \A i, j \in 1..Len(ingester.records) :
            i # j => ingester.records[i].chunk_id # ingester.records[j].chunk_id

\* C18: for any question id and question, _build_row_from_evidence called
\* with an empty evidence list returns a row of status
\* "INSUFFICIENT_EVIDENCE", of answer "INSUFFICIENT EVIDENCE" and with no
\* citations.
C18_EmptyEvidenceRow ==
    (batch.pc = "done" /\ batch.evidence = <<>>) =>
        /\ batch.row.status = "INSUFFICIENT_EVIDENCE"
        /\ batch.row.answer = <<"INSUFFICIENT EVIDENCE">>
        /\ batch.row.citations = <<>>

\* C19: the citations of an /ask response all carry a locator (a page, a
\* non-blank section or a non-blank subsection), are evidence items,
\* number at most 3 and are in non-increasing score order, and no
\* locatable evidence item that was dropped has a higher score than one
\* that was kept.
C19_PreciseCitations ==
    citer.pc = "done" =>
        LET out == citer.out
            evidence == citer.evidence
            kept == {out[i].evid_id : i \in 1..Len(out)}
        IN  /\ Len(out) <= 3
            /\ Cardinality(kept) = Len(out)
            /\ \A i \in 1..Len(out) :
                   /\ \E e \in 1..Len(evidence) : evidence[e] = out[i]
                   /\ \/ out[i].page # None
                      \/ out[i].section # None /\ Strip(out[i].section[1]) # <<>>
                      \/ out[i].subsection # None /\ Strip(out[i].subsection[1]) # <<>>
                   /\ i > 1 => out[i - 1].score >= out[i].score
            /\ \A e \in 1..Len(evidence) :
                   (CitationHasLocator(evidence[e]) /\ evidence[e].evid_id \notin kept)
                   => \A i \in 1..Len(out) : evidence[e].score <= out[i].score

\* of four locatable evidence items the worst, which came first, is dropped
C19_Witness ==
    /\ citer.pc = "done"
    /\ Len(citer.out) = 3
    /\ Len(citer.evidence) = 4
    /\ \A e \in 1..4 : CitationHasLocator(citer.evidence[e])
    /\ \A i \in 1..3 : citer.out[i] # citer.evidence[1]
    /\ citer.out[3].score > citer.evidence[1].score

\* C20: a successful response of the api /ask endpoint never carries
\* generated text that has no [E<digits>] marker or that was produced from
\* evidence whose top score is below the minimum grounding score: an
\* answer that fails the gate is replaced by the fixed statement.
C20_ApiAnswerIsGated ==
    (api.pc = "replied" /\ api.resp.status = 200
        /\ api.resp.answer # INSUFFICIENT) =>
        /\ HoldsMarker(api.resp.answer)
        /\ \E i \in 1..Len(api.evidence) :
               api.evidence[i].score >= MinTopScoreDefault

\* C21: within one call of _build_candidates whose search step read index
\* and metadata of one generation, the metadata array of the lexical scan
\* is of that generation too, and all candidates are records of it.
C21_CallSeesOneGeneration ==
    (/\ retrieval.pc = "done"
     /\ retrieval.out.kind = "returned"
     /\ retrieval.index = retrieval.meta)
        => /\ retrieval.lex_meta = retrieval.meta
           /\ \A n \in 1..Len(retrieval.out.value) :
                  retrieval.out.value[n][1] = retrieval.meta

\* C22: every candidate that _build_candidates returns is of the routed
\* domain, or the routed domain is "general", or the candidate is doctrine
\* (a publication code in its pub field or its title); and every doctrine
\* passage of the snapshot is among the candidates, whatever its domain
\* (the snapshot is smaller than the search limit, so each passage is a
\* vector hit).
C22_CandidatesPassFilter ==
    \A c \in Calls :
        builder.out[c].kind = "returned" =>
            LET cands == builder.out[c].value
                routed == builder.in.routed_domain
            IN  /\ \A n \in 1..Len(cands) :
                       \/ routed = "general"
                       \/ cands[n].rec.domain = routed
                       \/ cands[n].rec.pub # ""
                       \/ cands[n].rec.refs # {}
                /\ \A i \in 1..Len(builder.in.meta) :
                       (builder.in.meta[i].pub # "" \/ builder.in.meta[i].refs # {})
                           => \E n \in 1..Len(cands) :
                                  cands[n].rec = builder.in.meta[i]

\* a call routed to "quality" has returned: a doctrine passage of domain
\* "general" is a candidate, and another passage of the snapshot is not
C22_Witness ==
    /\ builder.out[1].kind = "returned"
    /\ builder.in.routed_domain = "quality"
    /\ \E n \in 1..Len(builder.out[1].value) :
           /\ builder.out[1].value[n].rec.domain = "general"
           /\ builder.out[1].value[n].rec.pub # ""
    /\ \E i \in 1..Len(builder.in.meta) :
           \A n \in 1..Len(builder.out[1].value) :
               builder.out[1].value[n].rec # builder.in.meta[i]

\* C23: for every text, _route_domain gives the text the domain that
\* _infer_domain gives a title consisting of the text, with an empty
\* source identifier.
C23_SameLexicon ==
    router.pc = "done" => router.routed = router.inferred

\* the canonical form of a reference written from parts: the upper-cased
\* prefix, one space, the first number, a hyphen, the second number
Canonical(parts) ==
    UpperText(parts.prefix) \o <<" ">> \o parts.first \o <<"-">> \o parts.second

\* C24: _normalize_query replaces a policy reference, whatever the spacing
\* and the case between prefix and number, by its canonical form, and
\* leaves a canonical reference as it is.
C24_CanonicalForm ==
    refnorm.pc = "done" => refnorm.out = Canonical(refnorm.parts)

\* whether the character at position i is in S
IsAt(text, i, S) == i \in 1..Len(text) /\ text[i] \in S

\* the positions where a line begins with a number that a non-word
\* character or the end of the text follows, blanks before it aside, some
\* letter or digit standing anywhere before that line
LaterHeadings(text) ==
    {i \in 2..Len(text) :
        /\ text[i] = "1"
        /\ \E n \in 1..(i - 1) :
               /\ text[n] = "\n"
               /\ \A j \in (n + 1)..(i - 1) : text[j] = " "
               /\ \E j \in 1..(n - 1) : text[j] \in {"a", "1"}
        /\ \E e \in i..Len(text) :
               /\ \A j \in i..e : text[j] = "1"
               /\ ~IsAt(text, e + 1, {"a", "1"})}

\* C25 (as claimed): chunk_policy_text returns no piece for an empty or
\* whitespace-only text, and exactly one piece for every other text of at
\* most chunk_size characters, heading lines or not.
C25_ShortTextOnePiece ==
    policy.pc = "done" =>
        /\ (\A i \in 1..Len(policy.text) : policy.text[i] \in {" ", "\n"})
               => policy.pieces = <<>>
        /\ (/\ \E i \in 1..Len(policy.text) : policy.text[i] \notin {" ", "\n"}
            /\ Len(policy.text) <= policy.chunk_size)
               => Len(policy.pieces) = 1

\* C25 (amended): chunk_policy_text returns no piece for an empty or
\* whitespace-only text; for every other text of at most chunk_size
\* characters it returns one piece and one more for every heading line
\* after the first non-blank line, so exactly one piece when no such
\* heading follows; no piece is empty.
C25_ShortTextPiecePerSegment ==
    policy.pc = "done" =>
        /\ (\A i \in 1..Len(policy.text) : policy.text[i] \in {" ", "\n"})
               => policy.pieces = <<>>
        /\ (/\ \E i \in 1..Len(policy.text) : policy.text[i] \notin {" ", "\n"}
            /\ Len(policy.text) <= policy.chunk_size)
               => /\ Len(policy.pieces) = 1 + Cardinality(LaterHeadings(policy.text))
                  /\ \A n \in 1..Len(policy.pieces) : policy.pieces[n].text # <<>>

\* a text of two heading lines, no longer than the chunk size, has been
\* chunked into two pieces
C25_Witness ==
    /\ policy.pc = "done"
    /\ policy.text = <<"1", "\n", "1", "1">>
    /\ policy.chunk_size = 4
    /\ Len(policy.pieces) = 2

\* a whitespace-only text and a short text without a later heading have
\* been chunked
C25_WitnessOne ==
    /\ policy.pc = "done"
    /\ policy.text = <<"a", "\n", "1", "a">>
    /\ policy.chunk_size = 4
    /\ Len(policy.pieces) = 1

\* C26: in the metadata array an ingestion run hands to save(), records of
\* one source identifier have strictly increasing chunk_index in array
\* order, and no record has an empty text.
C26_OrdinalsIncrease ==
    ingester.pc = "done" =>
        /\ \A i, j \in 1..Len(ingester.records) :
               (/\ i < j
                /\ ingester.records[i].source_id = ingester.records[j].source_id)
                   => ingester.records[i].chunk_index
                          < ingester.records[j].chunk_index
        /\ \A i \in 1..Len(ingester.records) : ingester.records[i].text # ""

\* C27: every vector a build has stored in the index has unit L2 norm,
\* whatever the embedding gateway returned, and every search score lies
\* between -1 and 1.
C27_StoredUnitNorm ==
    /\ indexer.pc \in {"built", "searched"} =>
           \A i \in 1..Len(indexer.stored) :
               InnerProduct(indexer.stored[i], indexer.stored[i]) = 100
    /\ indexer.pc = "searched" =>
           \A n \in 1..Len(indexer.hits) :
               indexer.hits[n].score >= -100 /\ indexer.hits[n].score <= 100

\* C28: _chunk_with_overlap terminates for every text, every chunk size of
\* 1 or more and every overlap of 0 or more, an overlap of the chunk size
\* or above included: each window starts after the one before it, so a
\* text never gives more windows than it has characters.
C28_StartStrictlyIncreases ==
    chunker.pc \in {"loop", "done"} =>
        /\ \A i \in 2..Len(chunker.chunks) :
               chunker.chunks[i][1] > chunker.chunks[i - 1][1]
        /\ Len(chunker.chunks) <= Max2(chunker.text, 1)

\* C29: an ingestion run that has failed, at whatever step, has left
\* faiss.index, meta.json and INDEX_STATE as they were before it: none of
\* them is what that run builds.
C29_FailedRunLeavesNoTrace ==
    \A r \in Runs :
        runs[r].pc = "failed" =>
            /\ indexFile # Written(r)
            /\ metaFile # Written(r)
            /\ INDEX_STATE.indexed_as_of # r

\* whether a text holds the marker "[" id "]"
Cites(text, id) ==
    \E p \in 1..Len(text) :
        /\ p + Len(id) + 1 <= Len(text)
        /\ SubSeq(text, p, p + Len(id) + 1) = <<"[">> \o id \o <<"]">>

\* C30: the evidence offered to the generator is labelled E1..En in its
\* order, and in a grounded /ask response every offered evidence
\* identifier that the returned answer cites is the evid_id of a returned
\* citation.
C30_NoDanglingMarker ==
    (askPc = "replied" /\ askResp.status = 200 /\ askResp.grounded) =>
        LET evidence == BuildEvidence(askIn.cands, askIn.top_k,
                                      askIn.allowed_sources)
        IN  \A i \in 1..Len(evidence) :
                /\ evidence[i].evid_id = <<"E">> \o Decimal(i)
                /\ Cites(askResp.answer, evidence[i].evid_id) =>
                       \E n \in 1..Len(askResp.citations) :
                           askResp.citations[n].evid_id = evidence[i].evid_id

=============================================================================
